---- MODULE Spec2Model ----
(***************************************************************************)
(* Market Data Engine and Strategy Runtime of the trading monitor.         *)
(*                                                                         *)
(* The model follows src/server/DataEngine.ts (StreamHandler, DataEngine), *)
(* src/server/StrategyRunner.ts (the shared-engine StrategyRunner, lines   *)
(* 1-297), src/services/resampleService.ts, src/services/binanceService.ts *)
(* and the supervisor's socket handlers.                                   *)
(*                                                                         *)
(* Node runs every handler to completion: one action is one macrotask (a   *)
(* socket command, a timer callback, a websocket event, the completion of  *)
(* a shard's initialize()).  The continuation of `await                    *)
(* stream.initialize()` in DataEngine.subscribe is a microtask queued by   *)
(* the completion of initialize(), so it belongs to the same action.       *)
(***************************************************************************)
EXTENDS Integers, Sequences, FiniteSets, TLC

VARIABLES
    streams,    \* DataEngine.streams: streamKey -> shard object (or NoShard)
    sh,         \* the StreamHandler objects ever constructed, by identity
    timers,     \* pending setTimeout callbacks, in the order they were armed
    rn,         \* the StrategyRunner objects of the supervisor
    disk,       \* FileStore: streamKey -> persisted candles
    saved,      \* FileStore: the 'strategies' file, the snapshots last written
    now,        \* exchange clock: index of the 1m candle that is open
    rt,         \* StrategyRunner.runtime of the strategy under evaluation
    env,        \* what surrounds that runtime: the day, the last batch, ...
    rs          \* a call of resampleCandles: its arguments and what it returned

vars == <<streams, sh, timers, rn, disk, saved, now, rt, env, rs>>

(***************************************************************************)
(* Bounds of the model.                                                    *)
(***************************************************************************)
\* StreamHandler objects that may be constructed in one behaviour.
MaxShards == 3
\* setTimeout callbacks that may be pending at once.
MaxTimers == 2
\* Last index the exchange clock may reach.
MaxTime == 4
\* MAX_CANDLES (5000 in the source), scaled so that head-trimming happens.
MAX_CANDLES == 3
\* The 1000-candle cap of a delivered view, scaled.
VIEW_CAP == 2
\* The exchange's page limit (limit=1500 in the source), scaled.
PAGE_LIMIT == 2
\* "batch.length < 500": the short-page threshold of the deep fetch, scaled.
PAGE_BREAK == 1

\* Pages of the deep fetch (for (let i = 0; i < 3; i++)).
DEEP_PAGES == 3
\* Width of the 1m candle in milliseconds: the unit of the exchange clock.
TickMs == 60000

Runners == {"s1", "s2"}
Symbols == {"BTCUSDT"}
\* Target intervals a strategy may be configured with in the model.
Intervals == {"1m", "2m", "3m"}

NoShard == 0
ShardIds == 1..MaxShards
NoCreator == <<>>

(***************************************************************************)
(* resampleService.ts                                                      *)
(***************************************************************************)
STANDARD_INTERVALS ==
    {"1m", "3m", "5m", "15m", "30m", "1h", "2h", "4h", "6h", "8h", "12h",
     "1d", "3d", "1w", "1M"}

\* The regular expression /^(\d+)([a-zA-Z]+)$/ on the interval codes: the
\* numeric prefix and the unit, as a table over the 23 codes of IntervalType
\* plus the mapped "31m".
IntervalMatch(interval) ==
    CASE interval = "1m" -> <<1, "m">> [] interval = "2m" -> <<2, "m">>
      [] interval = "3m" -> <<3, "m">> [] interval = "5m" -> <<5, "m">>
      [] interval = "6m" -> <<6, "m">> [] interval = "10m" -> <<10, "m">>
      [] interval = "15m" -> <<15, "m">> [] interval = "20m" -> <<20, "m">>
      [] interval = "30m" -> <<30, "m">> [] interval = "31m" -> <<31, "m">>
      [] interval = "45m" -> <<45, "m">> [] interval = "1h" -> <<1, "h">>
      [] interval = "2h" -> <<2, "h">> [] interval = "3h" -> <<3, "h">>
      [] interval = "4h" -> <<4, "h">> [] interval = "6h" -> <<6, "h">>
      [] interval = "8h" -> <<8, "h">> [] interval = "10h" -> <<10, "h">>
      [] interval = "12h" -> <<12, "h">> [] interval = "1d" -> <<1, "d">>
      [] interval = "2d" -> <<2, "d">> [] interval = "3d" -> <<3, "d">>
      [] interval = "1w" -> <<1, "w">> [] interval = "1M" -> <<1, "M">>
      [] OTHER -> <<>>

intervalToMs(interval) ==
    LET match == IntervalMatch(interval) IN
    IF match = <<>> THEN 60000
    ELSE LET value == match[1]
             unit == match[2]
             mult == CASE unit = "s" -> 1000
                       [] unit = "m" -> 60 * 1000
                       [] unit = "h" -> 60 * 60 * 1000
                       [] unit = "d" -> 24 * 60 * 60 * 1000
                       [] unit = "w" -> 7 * 24 * 60 * 60 * 1000
                       [] unit = "M" -> 30 * 24 * 60 * 60 * 1000
                       [] OTHER -> 60 * 1000
         IN value * mult

\* The mappings table of determineBaseConfig ("" when the key is absent).
BaseMapping(targetInterval) ==
    CASE targetInterval = "2m" -> "1m"
      [] targetInterval = "6m" -> "3m"
      [] targetInterval = "10m" -> "5m"
      [] targetInterval = "20m" -> "5m"
      [] targetInterval = "31m" -> "1m"
      [] targetInterval = "45m" -> "15m"
      [] targetInterval = "3h" -> "1h"
      [] targetInterval = "10h" -> "2h"
      [] targetInterval = "2d" -> "1d"
      [] OTHER -> ""

\* A selection that knows no mapping and falls back to 1m for every
\* interval that is not standard.
determineBaseConfig_Fallback(targetInterval) ==
    IF targetInterval \in STANDARD_INTERVALS
    THEN [baseInterval |-> targetInterval, isNative |-> TRUE]
    ELSE [baseInterval |-> "1m", isNative |-> FALSE]

determineBaseConfig(targetInterval) ==
    IF targetInterval \in STANDARD_INTERVALS
    THEN [baseInterval |-> targetInterval, isNative |-> TRUE]
    ELSE IF BaseMapping(targetInterval) # ""
         THEN [baseInterval |-> BaseMapping(targetInterval), isNative |-> FALSE]
         ELSE [baseInterval |-> "1m", isNative |-> FALSE]

\* A candle of the model: the fields the data path decides on.
\* Math.max returning its second argument.
Max_Second(a, b) == b

\* Math.max.
Max(a, b) == IF a >= b THEN a ELSE b

\* Math.min returning its first argument.
Min_First(a, b) == a

\* Math.min.
Min(a, b) == IF a <= b THEN a ELSE b

\* A kline of the stream.  In the lifecycle of the shards every kline has the
\* same prices and volume.
Candle(t, closed) ==
    [time |-> t, open |-> 10, high |-> 10, low |-> 10, close |-> 10,
     volume |-> 1, isClosed |-> closed]

\* Array.prototype.slice(-n).
SliceLast(seq, n) ==
    IF Len(seq) <= n THEN seq ELSE SubSeq(seq, Len(seq) - n + 1, Len(seq))

\* Array.prototype.sort((a, b) => a.time - b.time): a stable insertion sort.
RECURSIVE InsertByTime(_, _)
InsertByTime(sorted, c) ==
    IF sorted = <<>> THEN <<c>>
    ELSE IF sorted[Len(sorted)].time <= c.time THEN Append(sorted, c)
         ELSE Append(InsertByTime(SubSeq(sorted, 1, Len(sorted) - 1), c),
                     sorted[Len(sorted)])

RECURSIVE SortByTime(_)
SortByTime(seq) ==
    IF seq = <<>> THEN <<>>
    ELSE InsertByTime(SortByTime(SubSeq(seq, 1, Len(seq) - 1)), seq[Len(seq)])

\* The bucket of a candle taken to start at the candle's own open time.
FloorTo_Unfloored(a, b) == a

\* floor(a / b) * b for a >= 0.
FloorTo(a, b) == (a \div b) * b

\* The loop of resampleCandles: resampledMap after the first n base candles,
\* as a sequence of target candles in insertion order.
RECURSIVE ResampleFold(_, _, _, _)
ResampleFold(baseCandles, n, targetMs, baseMs) ==
    IF n = 0 THEN <<>>
    ELSE LET acc == ResampleFold(baseCandles, n - 1, targetMs, baseMs)
             base == baseCandles[n]
             targetStartTime == FloorTo(base.time, targetMs)
             here == {k \in 1..Len(acc) : acc[k].time = targetStartTime}
             acc1 == IF here = {}
                     THEN Append(acc, [time |-> targetStartTime,
                                       open |-> base.open, high |-> base.high,
                                       low |-> base.low, close |-> base.close,
                                       volume |-> base.volume,
                                       isClosed |-> FALSE])
                     ELSE acc
             k == CHOOSE j \in 1..Len(acc1) : acc1[j].time = targetStartTime
             baseEndTime == base.time + baseMs
             targetEndTime == targetStartTime + targetMs
         IN [acc1 EXCEPT ![k].high = Max(@, base.high),
                         ![k].low = Min(@, base.low),
                         ![k].close = base.close,
                         ![k].volume = @ + base.volume,
                         ![k].isClosed =
                             IF base.isClosed /\ baseEndTime >= targetEndTime
                             THEN TRUE ELSE @]

resampleCandles(baseCandles, targetInterval, baseInterval) ==
    SortByTime(ResampleFold(baseCandles, Len(baseCandles),
                            intervalToMs(targetInterval),
                            intervalToMs(baseInterval)))

(***************************************************************************)
(* binanceService.ts: the exchange, as the adapter sees it.                *)
(***************************************************************************)
\* Open times of the candles of width w the exchange holds at clock t.
RECURSIVE HistoryUpTo(_, _)
HistoryUpTo(w, hi) ==
    IF hi < 0 THEN <<>>
    ELSE Append(HistoryUpTo(w, FloorTo(hi, w) - w), Candle(FloorTo(hi, w), TRUE))

SelectSeqFrom(seq, lo) == SelectSeq(seq, LAMBDA c : c.time >= lo)

\* fetchHistoricalCandles(symbol, interval, startTime, endTime): 0 stands for
\* an omitted (or falsy) startTime / endTime.  With startTime the exchange
\* answers the first PAGE_LIMIT candles from it, otherwise the last
\* PAGE_LIMIT candles up to endTime (or up to the clock).  Every fetched
\* candle is tagged isClosed = true.  ok = FALSE is a failed request, which
\* the adapter turns into [].
fetchHistoricalCandles(interval, startTime, endTime, clock, ok) ==
    LET w == intervalToMs(interval)
        upper == IF endTime # 0 /\ endTime < clock * TickMs
                 THEN endTime ELSE clock * TickMs
        upTo == HistoryUpTo(w, upper)
    IN IF ~ok THEN <<>>
       ELSE IF startTime # 0
            THEN LET from == SelectSeqFrom(upTo, startTime)
                 IN SubSeq(from, 1, IF Len(from) < PAGE_LIMIT
                                    THEN Len(from) ELSE PAGE_LIMIT)
            ELSE SliceLast(upTo, PAGE_LIMIT)

(***************************************************************************)
(* Small helpers for Map and Array values.                                 *)
(***************************************************************************)
EmptyMap == [x \in {} |-> <<>>]
MapSet(m, k, v) == [x \in (DOMAIN m) \cup {k} |-> IF x = k THEN v ELSE m[x]]
MapDelete(m, k) == [x \in (DOMAIN m) \ {k} |-> m[x]]
Range(seq) == {seq[k] : k \in 1..Len(seq)}
RemoveAt(seq, k) == SubSeq(seq, 1, k - 1) \o SubSeq(seq, k + 1, Len(seq))
MinOf(S) == CHOOSE x \in S : \A y \in S : x <= y

\* streamKey = `${symbol}_${baseInterval}`.
StreamKey(symbol, baseInterval) == <<symbol, baseInterval>>
BaseIntervals == {determineBaseConfig(i).baseInterval : i \in Intervals}
Keys == {StreamKey(sym, b) : sym \in Symbols, b \in BaseIntervals}

(***************************************************************************)
(* DataEngine.ts: class StreamHandler.                                     *)
(*                                                                         *)
(* A shard is a record.  Besides the fields of the class it carries        *)
(*   phase      where its initialize() stands ("local": awaiting the       *)
(*              incremental fetch, "deep": awaiting the deep fetch,        *)
(*              "ready": completed),                                       *)
(*   fetchFrom  the startTime captured by initialize() (lastTime + 1),     *)
(*   creator    the (strategyId, interval) of the DataEngine.subscribe     *)
(*              call that awaits initialize(), or NoCreator,               *)
(* and the history fields destroys, staleDestroys, prewarmed, emptied and  *)
(* got, which record what happened and are read by no operation: the runs  *)
(* of destroy(), those of them by a timer armed before a subscribe(),      *)
(* whether setAlwaysActive(true) was applied, whether the last call of     *)
(* DataEngine.unsubscribe or subscribe on the shard left it without        *)
(* subscribers, and what each subscription's callback received.            *)
(* destroyTimeout is "null", "pending" (the handle of a timer that is      *)
(* armed) or "fired" (the handle of a timer that has run: still truthy).   *)
(* isConnected and lastSaveTime are not kept: isConnected is never read,   *)
(* and the clock test of processNewCandle is an input of Tick.             *)
(***************************************************************************)
BlankShard ==
    [alloc |-> FALSE, symbol |-> "", baseInterval |-> "", phase |-> "none",
     fetchFrom |-> 0, creator |-> NoCreator, ws |-> "null",
     baseCandles |-> <<>>, derivedBuffers |-> EmptyMap,
     subscribers |-> EmptyMap, activeTargetIntervals |-> {},
     destroyTimeout |-> "null", isAlwaysActive |-> FALSE,
     destroys |-> 0, staleDestroys |-> 0, prewarmed |-> FALSE,
     emptied |-> FALSE, got |-> EmptyMap]

getStoreKey(shard) == StreamKey(shard.symbol, shard.baseInterval)

hasSubscribers(shard) == DOMAIN shard.subscribers # {}

\* getOrCalculateDerivedData: the view returned and the shard afterwards
\* (the derived cache may have been filled).
getOrCalculateDerivedData(shard, targetInterval) ==
    IF targetInterval = shard.baseInterval
    THEN [data |-> SliceLast(shard.baseCandles, VIEW_CAP), shard |-> shard]
    ELSE IF targetInterval \in DOMAIN shard.derivedBuffers
         THEN [data |-> shard.derivedBuffers[targetInterval], shard |-> shard]
         ELSE LET resampled == resampleCandles(shard.baseCandles, targetInterval,
                                               shard.baseInterval)
                  trimmed == SliceLast(resampled, VIEW_CAP)
              IN [data |-> trimmed,
                  shard |-> [shard EXCEPT !.derivedBuffers =
                                 MapSet(@, targetInterval, trimmed)]]

\* A trim that keeps the oldest MAX_CANDLES candles: slice(0, MAX_CANDLES).
TrimToMax_KeepsHead(candles) ==
    IF Len(candles) > MAX_CANDLES THEN SubSeq(candles, 1, MAX_CANDLES) ELSE candles

\* No trim at all.
TrimToMax_Never(candles) == candles

\* if (baseCandles.length > MAX_CANDLES) baseCandles = baseCandles.slice(-MAX_CANDLES).
TrimToMax(candles) ==
    IF Len(candles) > MAX_CANDLES THEN SliceLast(candles, MAX_CANDLES) ELSE candles

\* One call of a subscriber's callback, as the shard's history records it:
\* snap    whether the subscription's first batch came from subscribe(),
\* ticked  whether a live tick has been delivered to it,
\* last    the openTime of the last candle of the latest non-empty batch,
\* len     the length of the latest batch,
\* mono    whether last never decreased.
Deliver(got, subId, targetInterval, data, fromSubscribe) ==
    LET sub == <<subId, targetInterval>>
        old == IF sub \in DOMAIN got THEN got[sub]
               ELSE [snap |-> fromSubscribe, ticked |-> FALSE, last |-> -1,
                     len |-> 0, mono |-> TRUE]
        lastTime == IF data = <<>> THEN old.last ELSE data[Len(data)].time
    IN MapSet(got, sub, [snap |-> old.snap,
                         ticked |-> old.ticked \/ ~fromSubscribe,
                         last |-> lastTime, len |-> Len(data),
                         mono |-> old.mono /\ lastTime >= old.last])

\* saveToDisk: the FileStore afterwards.
saveToDisk(shard, files) ==
    IF Len(shard.baseCandles) = 0 THEN files
    ELSE [files EXCEPT ![getStoreKey(shard)] = shard.baseCandles]

\* clearTimeout(this.destroyTimeout); this.destroyTimeout = null.
ClearDestroyTimeout(st, s) ==
    IF st.sh[s].destroyTimeout = "null" THEN st
    ELSE [st EXCEPT
            !.timers = SelectSeq(@, LAMBDA t :
                           ~(t.kind = "destroy" /\ t.s = s /\ t.cur)),
            !.sh[s].destroyTimeout = "null"]

setAlwaysActive(st, s, active) ==
    LET st1 == [st EXCEPT !.sh[s].isAlwaysActive = active,
                          !.sh[s].prewarmed = @ \/ active]
    IN IF active THEN ClearDestroyTimeout(st1, s) ELSE st1

addActiveTargetInterval(st, s, interval) ==
    [st EXCEPT !.sh[s].activeTargetIntervals = @ \cup {interval}]

\* A subscribe that registers the callback and leaves the first batch to the
\* next tick.
StreamSubscribe_NoSnapshot(st, s, subId, targetInterval) ==
    LET st1 == ClearDestroyTimeout(st, s)
        subs == IF targetInterval \in DOMAIN st1.sh[s].subscribers
                THEN st1.sh[s].subscribers[targetInterval] ELSE <<>>
    IN [st1 EXCEPT !.sh[s].subscribers =
                       MapSet(@, targetInterval, Append(subs, subId)),
                   !.sh[s].emptied = FALSE]

\* StreamHandler.subscribe.  The destroy timers of the shard that stay armed
\* (their handles were overwritten) are marked: a subscribe happened since.
StreamSubscribe(st, s, subId, targetInterval) ==
    LET st1 == ClearDestroyTimeout(st, s)
        marked == [k \in 1..Len(st1.timers) |->
                     IF st1.timers[k].kind = "destroy" /\ st1.timers[k].s = s
                     THEN [st1.timers[k] EXCEPT !.stale = TRUE]
                     ELSE st1.timers[k]]
        shard1 == st1.sh[s]
        subs == IF targetInterval \in DOMAIN shard1.subscribers
                THEN shard1.subscribers[targetInterval] ELSE <<>>
        shard2 == [shard1 EXCEPT !.subscribers =
                       MapSet(@, targetInterval, Append(subs, subId)),
                                 !.emptied = FALSE]
        view == getOrCalculateDerivedData(shard2, targetInterval)
        shard3 == [view.shard EXCEPT !.got =
                       Deliver(@, subId, targetInterval, view.data, TRUE)]
    IN [st1 EXCEPT !.timers = marked, !.sh[s] = shard3]

\* StreamHandler.unsubscribe: in every interval's list the first entry of
\* subId is spliced out; an interval left without entries loses its list
\* and its derived buffer.
StreamUnsubscribe(shard, subId) ==
    LET hit == {i \in DOMAIN shard.subscribers : subId \in Range(shard.subscribers[i])}
        spliced(i) == LET subs == shard.subscribers[i]
                          idx == MinOf({k \in 1..Len(subs) : subs[k] = subId})
                      IN RemoveAt(subs, idx)
        emptied == {i \in hit : spliced(i) = <<>>}
        gone == {<<subId, i>> : i \in {j \in hit : subId \notin Range(spliced(j))}}
    IN [shard EXCEPT
          !.subscribers = [i \in (DOMAIN @) \ emptied |->
                             IF i \in hit THEN spliced(i) ELSE @[i]],
          !.derivedBuffers = [i \in (DOMAIN @) \ emptied |-> @[i]],
          !.got = [x \in (DOMAIN @) \ gone |-> @[x]]]

\* A scheduleDestroy that arms its timer only on a shard whose websocket is
\* open.
scheduleDestroy_OnlyWhenConnected(st, s) ==
    IF st.sh[s].isAlwaysActive THEN st
    ELSE IF hasSubscribers(st.sh[s]) THEN st
    ELSE IF st.sh[s].ws # "open" THEN st
    ELSE IF Len(st.timers) >= MaxTimers THEN [st EXCEPT !.ovf = TRUE]
    ELSE [st EXCEPT
            !.timers = Append(@, [kind |-> "destroy", s |-> s,
                                  cur |-> TRUE, stale |-> FALSE]),
            !.sh[s].destroyTimeout = "pending"]

\* StreamHandler.scheduleDestroy: setTimeout(..., KEEP_ALIVE_MS).  The handle
\* of a timer that was armed before is overwritten; that timer stays armed.
scheduleDestroy(st, s) ==
    IF st.sh[s].isAlwaysActive THEN st
    ELSE IF hasSubscribers(st.sh[s]) THEN st
    ELSE IF Len(st.timers) >= MaxTimers THEN [st EXCEPT !.ovf = TRUE]
    ELSE LET old == [k \in 1..Len(st.timers) |->
                       IF st.timers[k].kind = "destroy" /\ st.timers[k].s = s
                       THEN [st.timers[k] EXCEPT !.cur = FALSE]
                       ELSE st.timers[k]]
         IN [st EXCEPT
               !.timers = Append(old, [kind |-> "destroy", s |-> s,
                                       cur |-> TRUE, stale |-> FALSE]),
               !.sh[s].destroyTimeout = "pending"]

\* StreamHandler.destroy, run by the timer `byStale` marks.
destroy(st, s, byStale) ==
    LET shard == st.sh[s]
    IN [st EXCEPT
          !.disk = saveToDisk(shard, @),
          !.sh[s] = [shard EXCEPT
                       !.ws = "null",
                       !.baseCandles = <<>>,
                       !.derivedBuffers = EmptyMap,
                       !.subscribers = EmptyMap,
                       !.activeTargetIntervals = {},
                       !.got = EmptyMap,
                       !.destroys = @ + 1,
                       !.staleDestroys = @ + (IF byStale THEN 1 ELSE 0)]]

\* StreamHandler.connect: new WebSocket(wsUrl).
connect(st, s) == [st EXCEPT !.sh[s].ws = "open"]

\* A timer callback that tests the alwaysActive flag only.
DestroyTimerDestroys_IgnoringSubscribers(shard) == ~shard.isAlwaysActive

\* The timer callback of scheduleDestroy: whether it destroys the shard.
DestroyTimerDestroys(shard) == ~hasSubscribers(shard) /\ ~shard.isAlwaysActive

\* The onDestroyed callback DataEngine.unsubscribe hands to scheduleDestroy:
\* it deletes whatever the registry holds under the shard's streamKey.
OnDestroyed(st, s) ==
    IF ~hasSubscribers(st.sh[s]) /\ ~st.sh[s].isAlwaysActive
    THEN [st EXCEPT !.streams[getStoreKey(st.sh[s])] = NoShard]
    ELSE st

\* The 'close' handler of the websocket: setTimeout(() => this.connect(), 5000).
OnWsClose(st, s) ==
    LET shard == st.sh[s]
    IN IF (hasSubscribers(shard) \/ shard.isAlwaysActive)
          /\ shard.destroyTimeout = "null"
       THEN IF Len(st.timers) >= MaxTimers THEN [st EXCEPT !.ovf = TRUE]
            ELSE [st EXCEPT !.timers = Append(@, [kind |-> "reconnect", s |-> s,
                                                  cur |-> FALSE, stale |-> FALSE])]
       ELSE st

\* A processNewCandle that appends every kline, also one of the candle that
\* is already last in the buffer.
processNewCandle_AlwaysPush(shard, files, newCandle, saveDue) ==
    LET pushed == Append(shard.baseCandles, newCandle)
        files1 == IF saveDue
                  THEN saveToDisk([shard EXCEPT !.baseCandles = pushed], files)
                  ELSE files
    IN [shard |-> [shard EXCEPT !.baseCandles = TrimToMax(pushed),
                                !.derivedBuffers = EmptyMap],
        disk |-> files1]

\* StreamHandler.processNewCandle.  saveDue is the test
\* Date.now() - this.lastSaveTime > SAVE_INTERVAL_MS.
processNewCandle(shard, files, newCandle, saveDue) ==
    LET n == Len(shard.baseCandles)
        pushed == IF n > 0 /\ shard.baseCandles[n].time = newCandle.time
                  THEN [shard.baseCandles EXCEPT ![n] = newCandle]
                  ELSE Append(shard.baseCandles, newCandle)
        files1 == IF saveDue
                  THEN saveToDisk([shard EXCEPT !.baseCandles = pushed], files)
                  ELSE files
        trimmed == TrimToMax(pushed)
        shard1 == [shard EXCEPT !.baseCandles = trimmed,
                                !.derivedBuffers = EmptyMap]
        view(i) == getOrCalculateDerivedData(shard1, i).data
        warm == (DOMAIN shard1.subscribers)
                \cup (IF shard1.isAlwaysActive
                      THEN shard1.activeTargetIntervals ELSE {})
        calls == UNION {{<<subId, i>> : subId \in Range(shard1.subscribers[i])} :
                           i \in DOMAIN shard1.subscribers}
    IN [shard |-> [shard1 EXCEPT
                     !.derivedBuffers =
                         [i \in warm \ {shard1.baseInterval} |-> view(i)],
                     !.got = [x \in (DOMAIN @) \cup calls |->
                                IF x \in calls
                                THEN Deliver(@, x[1], x[2], view(x[2]), FALSE)[x]
                                ELSE @[x]]],
        disk |-> files1]

\* uniqueMap.set(c.time, c) over allFetched: first place, last value.
RECURSIVE DedupByTime(_)
DedupByTime(seq) ==
    IF seq = <<>> THEN <<>>
    ELSE LET front == DedupByTime(SubSeq(seq, 1, Len(seq) - 1))
             c == seq[Len(seq)]
             at == {k \in 1..Len(front) : front[k].time = c.time}
         IN IF at = {} THEN Append(front, c)
            ELSE [front EXCEPT ![MinOf(at)] = c]

\* The deep-fetch loop of initialize(), from page i on; the first okPages
\* requests succeed.
RECURSIVE DeepFetch(_, _, _, _, _, _)
DeepFetch(interval, i, endTime, allFetched, clock, okPages) ==
    IF i >= DEEP_PAGES THEN allFetched
    ELSE LET batch == fetchHistoricalCandles(interval, 0, endTime, clock,
                                             i < okPages)
         IN IF Len(batch) = 0 THEN allFetched
            ELSE IF Len(batch) < PAGE_BREAK THEN batch \o allFetched
            ELSE DeepFetch(interval, i + 1, batch[1].time - 1,
                           batch \o allFetched, clock, okPages)

\* new StreamHandler(symbol, baseInterval) registered under its key, and
\* initialize() up to its first await: the FileStore is read and, when it
\* holds candles, they become baseCandles at once.
CreateStream(st, symbol, baseInterval, creator) ==
    LET free == {s \in ShardIds : ~st.sh[s].alloc}
        s == MinOf(free)
        localData == st.disk[StreamKey(symbol, baseInterval)]
        sorted == SortByTime(localData)
    IN IF free = {} THEN [st EXCEPT !.ovf = TRUE]
       ELSE [st EXCEPT
               !.streams[StreamKey(symbol, baseInterval)] = s,
               !.sh[s] = [BlankShard EXCEPT
                            !.alloc = TRUE,
                            !.symbol = symbol,
                            !.baseInterval = baseInterval,
                            !.creator = creator,
                            !.phase = IF Len(localData) > 0 THEN "local" ELSE "deep",
                            !.fetchFrom = IF Len(localData) > 0
                                          THEN sorted[Len(sorted)].time + 1 ELSE 0,
                            !.baseCandles = IF Len(localData) > 0
                                            THEN sorted ELSE <<>>]]

\* initialize() from its first await to its end: the fetched candles are
\* merged, the buffer is trimmed and saved, the websocket is opened.
FinishInitialize(st, s, clock, okPages) ==
    LET shard == st.sh[s]
        newData == fetchHistoricalCandles(shard.baseInterval, shard.fetchFrom, 0,
                                          clock, okPages > 0)
        merged == IF shard.phase = "local"
                  THEN (IF Len(newData) > 0 THEN shard.baseCandles \o newData
                        ELSE shard.baseCandles)
                  ELSE SortByTime(DedupByTime(
                           DeepFetch(shard.baseInterval, 0, 0, <<>>, clock, okPages)))
        trimmed == TrimToMax(merged)
        shard1 == [shard EXCEPT !.baseCandles = trimmed, !.phase = "ready"]
    IN connect([st EXCEPT !.sh[s] = shard1,
                          !.disk = saveToDisk(shard1, @)], s)

(***************************************************************************)
(* DataEngine.ts: class DataEngine.                                        *)
(***************************************************************************)
AVAILABLE_INTERVALS ==
    <<"1m", "3m", "5m", "15m", "30m", "1h", "2h", "4h", "6h", "8h", "12h",
      "1d", "3d", "1w">>

\* DataEngine.subscribe up to its await (or to its end when the shard exists).
EngineSubscribe(st, strategyId, symbol, interval) ==
    LET baseInterval == determineBaseConfig(interval).baseInterval
        stream == st.streams[StreamKey(symbol, baseInterval)]
    IN IF stream = NoShard
       THEN CreateStream(st, symbol, baseInterval, <<strategyId, interval>>)
       ELSE StreamSubscribe(st, stream, strategyId, interval)

\* DataEngine.unsubscribe.
EngineUnsubscribe(st, strategyId, symbol, interval) ==
    LET baseInterval == determineBaseConfig(interval).baseInterval
        stream == st.streams[StreamKey(symbol, baseInterval)]
        left == StreamUnsubscribe(st.sh[stream], strategyId)
    IN IF stream = NoShard THEN st
       ELSE scheduleDestroy(
                [st EXCEPT !.sh[stream] =
                     [left EXCEPT !.emptied = ~hasSubscribers(left)]],
                stream)

\* The loop body of DataEngine.ensureActive for the intervals from place n on.
RECURSIVE EnsureActiveFrom(_, _, _, _)
EnsureActiveFrom(st, symbol, intervals, n) ==
    IF n > Len(intervals) \/ st.ovf THEN st
    ELSE LET interval == intervals[n]
             baseInterval == determineBaseConfig(interval).baseInterval
             streamKey == StreamKey(symbol, baseInterval)
             st1 == IF st.streams[streamKey] = NoShard
                    THEN CreateStream(st, symbol, baseInterval, NoCreator)
                    ELSE st
         IN IF st1.ovf THEN st1
            ELSE EnsureActiveFrom(
                     addActiveTargetInterval(
                         setAlwaysActive(st1, st1.streams[streamKey], TRUE),
                         st1.streams[streamKey], interval),
                     symbol, intervals, n + 1)

(***************************************************************************)
(* StrategyRunner.ts (shared-engine StrategyRunner).                       *)
(***************************************************************************)
DEFAULT_CONFIG == [symbol |-> "BTCUSDT", interval |-> "1m"]

RunnerStart(st, r) ==
    IF st.rn[r].isRunning THEN st
    ELSE EngineSubscribe([st EXCEPT !.rn[r].isRunning = TRUE],
                         r, st.rn[r].symbol, st.rn[r].interval)

RunnerStop(st, r) ==
    EngineUnsubscribe([st EXCEPT !.rn[r].isRunning = FALSE],
                      r, st.rn[r].symbol, st.rn[r].interval)

\* StrategyRunner.updateConfig: the configuration is replaced first; stop()
\* and start() then read the new one.
RunnerUpdateConfig(st, r, symbol, interval) ==
    LET oldSymbol == st.rn[r].symbol
        oldInterval == st.rn[r].interval
        st1 == [st EXCEPT !.rn[r].symbol = symbol, !.rn[r].interval = interval]
    IN IF symbol # oldSymbol \/ interval # oldInterval
       THEN RunnerStart(RunnerStop(st1, r), r)
       ELSE st1

(***************************************************************************)
(* services/strategyEngine.ts: evaluateStrategy.                           *)
(*                                                                         *)
(* Prices and indicator values are integers.  A quantity q of the program  *)
(* is held as the integer q * QTY_SCALE, and a comparison with a           *)
(* percentage, x >= p * (1 + pct / 100), is made on both sides times 100,  *)
(* so every comparison below is the exact one; the rounding of the         *)
(* program's floating-point numbers is outside the model.  The candles of  *)
(* a batch are held as their number, the last candle and the indicator     *)
(* values of the one before it: evaluateStrategy reads nothing else.       *)
(***************************************************************************)
\* An optional number that is absent (ema7?, macdLine?, ... of a Candle).
Undefined == -1
\* Quantities are held in hundredths.
QTY_SCALE == 100
\* evaluateStrategy returns at once below this number of candles.
MIN_CANDLES == 50

\* JavaScript's comparisons are false when an operand is undefined.
Lt(a, b) == a # Undefined /\ b # Undefined /\ a < b
Lte(a, b) == a # Undefined /\ b # Undefined /\ a <= b

crossOver(currA, currB, prevA, prevB) == Lte(prevA, prevB) /\ Lt(currB, currA)
crossUnder(currA, currB, prevA, prevB) == Lte(prevB, prevA) /\ Lt(currA, currB)

\* The reason strings of the program, by name.
NoReason == ""

\* isSignalTrigger: signals are read on every tick, or on closed candles only.
isSignalTrigger(config, last) ==
    IF config.triggerOnClose THEN last.isClosed ELSE TRUE

isTrendLong(last) == last.ema7 > last.ema25 /\ last.ema25 > last.ema99
isTrendShort(last) == last.ema7 < last.ema25 /\ last.ema25 < last.ema99
blockShort(config, last) == config.trendFilterBlockShort /\ isTrendLong(last)
blockLong(config, last) == config.trendFilterBlockLong /\ isTrendShort(last)

\* The crosses of the tick, per signal family.
Crosses(config, last, prev) ==
    LET crossUp7_99 == crossOver(last.ema7, last.ema99, prev.ema7, prev.ema99)
        crossUp25_99 == crossOver(last.ema25, last.ema99, prev.ema25, prev.ema99)
        crossDown7_99 == crossUnder(last.ema7, last.ema99, prev.ema7, prev.ema99)
        crossDown25_99 == crossUnder(last.ema25, last.ema99, prev.ema25, prev.ema99)
        macdDefined == last.macdLine # Undefined /\ last.macdSignal # Undefined
    IN [ema7_25_Up |-> config.useEMA7_25
                       /\ crossOver(last.ema7, last.ema25, prev.ema7, prev.ema25),
        ema7_25_Down |-> config.useEMA7_25
                         /\ crossUnder(last.ema7, last.ema25, prev.ema7, prev.ema25),
        ema7_99_Up |-> config.useEMA7_99 /\ crossUp7_99,
        ema7_99_Down |-> config.useEMA7_99 /\ crossDown7_99,
        ema25_99_Up |-> config.useEMA25_99 /\ crossUp25_99,
        ema25_99_Down |-> config.useEMA25_99 /\ crossDown25_99,
        emaDouble_Up |-> config.useEMADouble /\ (crossUp7_99 \/ crossUp25_99),
        emaDouble_Down |-> config.useEMADouble /\ (crossDown7_99 \/ crossDown25_99),
        macdBuy |-> config.useMACD /\ macdDefined
                    /\ crossOver(last.macdLine, last.macdSignal,
                                 prev.macdLine, prev.macdSignal),
        macdSell |-> config.useMACD /\ macdDefined
                     /\ crossUnder(last.macdLine, last.macdSignal,
                                   prev.macdLine, prev.macdSignal)]

longEntryReason(config, last, prev) ==
    LET x == Crosses(config, last, prev)
    IN IF ~config.manualTakeover /\ isSignalTrigger(config, last)
          /\ ~blockLong(config, last)
       THEN CASE config.useEMA7_25 /\ config.ema7_25_Long /\ x.ema7_25_Up
                   -> "EMA7 crosses above 25: open long"
              [] config.useEMA7_99 /\ config.ema7_99_Long /\ x.ema7_99_Up
                   -> "EMA7 crosses above 99: open long"
              [] config.useEMA25_99 /\ config.ema25_99_Long /\ x.ema25_99_Up
                   -> "EMA25 crosses above 99: open long"
              [] config.useEMADouble /\ config.emaDoubleLong /\ x.emaDouble_Up
                   -> "EMA7/25 crosses above 99: open long"
              [] config.useMACD /\ config.macdLong /\ x.macdBuy
                   -> "MACD golden cross: open long"
              [] OTHER -> NoReason
       ELSE NoReason

shortEntryReason(config, last, prev) ==
    LET x == Crosses(config, last, prev)
    IN IF ~config.manualTakeover /\ isSignalTrigger(config, last)
          /\ ~blockShort(config, last)
       THEN CASE config.useEMA7_25 /\ config.ema7_25_Short /\ x.ema7_25_Down
                   -> "EMA7 crosses below 25: open short"
              [] config.useEMA7_99 /\ config.ema7_99_Short /\ x.ema7_99_Down
                   -> "EMA7 crosses below 99: open short"
              [] config.useEMA25_99 /\ config.ema25_99_Short /\ x.ema25_99_Down
                   -> "EMA25 crosses below 99: open short"
              [] config.useEMADouble /\ config.emaDoubleShort /\ x.emaDouble_Down
                   -> "EMA7/25 crosses below 99: open short"
              [] config.useMACD /\ config.macdShort /\ x.macdSell
                   -> "MACD death cross: open short"
              [] OTHER -> NoReason
       ELSE NoReason

exitLongReason(config, last, prev) ==
    LET x == Crosses(config, last, prev)
    IN IF isSignalTrigger(config, last)
       THEN CASE config.useEMA7_25 /\ config.ema7_25_ExitLong /\ x.ema7_25_Down
                   -> "EMA7 crosses below 25: close long"
              [] config.useEMA7_99 /\ config.ema7_99_ExitLong /\ x.ema7_99_Down
                   -> "EMA7 crosses below 99: close long"
              [] config.useEMA25_99 /\ config.ema25_99_ExitLong /\ x.ema25_99_Down
                   -> "EMA25 crosses below 99: close long"
              [] config.useEMADouble /\ config.emaDoubleExitLong /\ x.emaDouble_Down
                   -> "EMA7/25 crosses below 99: close long"
              [] config.useMACD /\ config.macdExitLong /\ x.macdSell
                   -> "MACD death cross: close long"
              [] OTHER -> NoReason
       ELSE NoReason

exitShortReason(config, last, prev) ==
    LET x == Crosses(config, last, prev)
    IN IF isSignalTrigger(config, last)
       THEN CASE config.useEMA7_25 /\ config.ema7_25_ExitShort /\ x.ema7_25_Up
                   -> "EMA7 crosses above 25: close short"
              [] config.useEMA7_99 /\ config.ema7_99_ExitShort /\ x.ema7_99_Up
                   -> "EMA7 crosses above 99: close short"
              [] config.useEMA25_99 /\ config.ema25_99_ExitShort /\ x.ema25_99_Up
                   -> "EMA25 crosses above 99: close short"
              [] config.useEMADouble /\ config.emaDoubleExitShort /\ x.emaDouble_Up
                   -> "EMA7/25 crosses above 99: close short"
              [] config.useMACD /\ config.macdExitShort /\ x.macdBuy
                   -> "MACD golden cross: close short"
              [] OTHER -> NoReason
       ELSE NoReason

canOpen(stats, config) == stats.dailyTradeCount < config.maxDailyTrades

\* pendingReversion when the engine waits for no pullback (null).
NoPending == "none"

\* A remaining quantity the program treats as nothing (<= 0.000001): in
\* hundredths, the least positive quantity is far above that threshold.
NearZero(q) == q <= 0

\* tradeAmount / last.close, in hundredths (the prices of the model divide).
QtyFor(tradeAmount, price) == (tradeAmount * QTY_SCALE) \div price

\* createPayload: the fields of the webhook payload that depend on the call.
\* The program appends a marker to the stored reason of a pullback entry:
\* `suffix` holds it.
createPayload(config, last, act, pos, comment, suffix, amountVal, qty) ==
    [action |-> act, position |-> pos, symbol |-> config.symbol,
     tp_level |-> comment, suffix |-> suffix, trade_amount |-> amountVal,
     execution_price |-> last.close, execution_quantity |-> qty]

\* The position object the engine writes when nothing is held.
FlatPosition ==
    [direction |-> "FLAT", initialQuantity |-> 0, remainingQuantity |-> 0,
     entryPrice |-> 0, highestPrice |-> 0, lowestPrice |-> 0,
     tpLevelsHit |-> <<>>, slLevelsHit |-> <<>>,
     pendingReversion |-> NoPending, pendingReversionReason |-> NoReason]

\* An opened position that still waits for the pullback it was opened on.
OpenedPosition_KeepsPending(direction, qty, last) ==
    [direction |-> direction, initialQuantity |-> qty,
     remainingQuantity |-> qty, entryPrice |-> last.close,
     highestPrice |-> IF direction = "LONG" THEN last.high ELSE 0,
     lowestPrice |-> IF direction = "SHORT" THEN last.low ELSE 0,
     tpLevelsHit |-> <<>>, slLevelsHit |-> <<>>,
     pendingReversion |-> direction, pendingReversionReason |-> NoReason]

\* The position object the engine writes when it opens `direction`.
OpenedPosition(direction, qty, last) ==
    [direction |-> direction, initialQuantity |-> qty,
     remainingQuantity |-> qty, entryPrice |-> last.close,
     highestPrice |-> IF direction = "LONG" THEN last.high ELSE 0,
     lowestPrice |-> IF direction = "SHORT" THEN last.low ELSE 0,
     tpLevelsHit |-> <<>>, slLevelsHit |-> <<>>,
     pendingReversion |-> NoPending, pendingReversionReason |-> NoReason]

toLowerCase(direction) ==
    CASE direction = "LONG" -> "long"
      [] direction = "SHORT" -> "short"
      [] OTHER -> "flat"

\* A hit flag that is never read as set.
IsHit_Unread(hits, idx) == FALSE

\* hits[idx] of a boolean array that may be shorter than idx (undefined).
IsHit(hits, idx) == idx <= Len(hits) /\ hits[idx]

\* A level that is executed and left unflagged.
MarkHit_Unflagged(hits, idx) == hits

\* newHits[idx] = true on a copy of the array; holes read as not hit.
MarkHit(hits, idx) ==
    [k \in 1..Max(Len(hits), idx) |-> k = idx \/ IsHit(hits, k)]

\* Fixed take profit and stop loss with the stop loss looked at first.
FixedCloseReason_StopLossFirst(config, pos, last) ==
    LET isLong == pos.direction = "LONG"
        tpHit == IF isLong
                 THEN last.high * 100 >= pos.entryPrice * (100 + config.takeProfitPct)
                 ELSE last.low * 100 <= pos.entryPrice * (100 - config.takeProfitPct)
        slHit == IF isLong
                 THEN last.low * 100 <= pos.entryPrice * (100 - config.stopLossPct)
                 ELSE last.high * 100 >= pos.entryPrice * (100 + config.stopLossPct)
    IN IF slHit THEN "fixed stop loss"
       ELSE IF tpHit THEN "fixed take profit"
       ELSE NoReason

\* Step 2 of the exits: fixed take profit and stop loss, on the candle's
\* high and low.
FixedCloseReason(config, pos, last) ==
    LET isLong == pos.direction = "LONG"
        entryPrice == pos.entryPrice
        longTPHit == isLong
            /\ last.high * 100 >= entryPrice * (100 + config.takeProfitPct)
        longSLHit == isLong
            /\ last.low * 100 <= entryPrice * (100 - config.stopLossPct)
        shortTPHit == ~isLong
            /\ last.low * 100 <= entryPrice * (100 - config.takeProfitPct)
        shortSLHit == ~isLong
            /\ last.high * 100 >= entryPrice * (100 + config.stopLossPct)
    IN IF longTPHit \/ shortTPHit THEN "fixed take profit"
       ELSE IF longSLHit \/ shortSLHit THEN "fixed stop loss"
       ELSE NoReason

\* A trailing stop that measures from the extreme the position already
\* had and never moves it.
TrailingStop_NoRatchet(config, pos, last) ==
    LET entryPrice == pos.entryPrice
    IN IF pos.direction = "LONG"
       THEN [pos |-> pos,
             reason |->
                 IF /\ pos.highestPrice * 100
                         >= entryPrice * (100 + config.trailActivation)
                    /\ last.low * 100
                         <= pos.highestPrice * (100 - config.trailDistance)
                 THEN "trailing stop" ELSE NoReason]
       ELSE [pos |-> pos,
             reason |->
                 IF /\ pos.lowestPrice * 100
                         <= entryPrice * (100 - config.trailActivation)
                    /\ last.high * 100
                         >= pos.lowestPrice * (100 + config.trailDistance)
                 THEN "trailing stop" ELSE NoReason]

\* Step 3 of the exits: the trailing stop moves the extreme price and closes
\* once the stop is activated and crossed.
TrailingStop(config, pos, last) ==
    LET entryPrice == pos.entryPrice
    IN IF pos.direction = "LONG"
       THEN LET highest == Max(pos.highestPrice, last.high)
            IN [pos |-> [pos EXCEPT !.highestPrice = highest],
                reason |->
                    IF /\ highest * 100 >= entryPrice * (100 + config.trailActivation)
                       /\ last.low * 100 <= highest * (100 - config.trailDistance)
                    THEN "trailing stop" ELSE NoReason]
       ELSE LET lowest == Min(pos.lowestPrice, last.low)
            IN [pos |-> [pos EXCEPT !.lowestPrice = lowest],
                reason |->
                    IF /\ lowest * 100 <= entryPrice * (100 - config.trailActivation)
                       /\ last.high * 100 >= lowest * (100 + config.trailDistance)
                    THEN "trailing stop" ELSE NoReason]

\* Step 4 of the exits: one pass of forEach over the take-profit levels
\* (isTP) or the stop-loss levels, from level idx on.  acc = [pos, actions].
RECURSIVE LevelsForEach(_, _, _, _, _, _)
LevelsForEach(config, last, levels, isTP, idx, acc) ==
    IF idx > Len(levels) THEN acc
    ELSE
    LET pos == acc.pos
        lv == levels[idx]
        isLong == pos.direction = "LONG"
        hits == IF isTP THEN pos.tpLevelsHit ELSE pos.slLevelsHit
        skip == ~lv.active \/ IsHit(hits, idx) \/ NearZero(pos.remainingQuantity)
        up == isTP = isLong
        hit == IF up
               THEN last.high * 100 >= pos.entryPrice * (100 + lv.pct)
               ELSE last.low * 100 <= pos.entryPrice * (100 - lv.pct)
        qtyToSell == (pos.initialQuantity * lv.qtyPct) \div 100
        actualQty == Min(qtyToSell, pos.remainingQuantity)
        order == createPayload(config, last,
                               IF isLong THEN "sell" ELSE "buy",
                               toLowerCase(pos.direction),
                               IF isTP THEN "take profit level"
                                       ELSE "stop loss level",
                               ToString(idx), actualQty * last.close, actualQty)
        remaining == Max(0, pos.remainingQuantity - actualQty)
        pos1 == IF isTP
                THEN [pos EXCEPT !.remainingQuantity = remaining,
                                 !.tpLevelsHit = MarkHit(hits, idx)]
                ELSE [pos EXCEPT !.remainingQuantity = remaining,
                                 !.slLevelsHit = MarkHit(hits, idx)]
        acc1 == IF skip \/ ~hit THEN acc
                ELSE [pos |-> pos1, actions |-> Append(acc.actions, order)]
    IN LevelsForEach(config, last, levels, isTP, idx + 1, acc1)

MultiLevel(config, pos, last) ==
    LET tp == LevelsForEach(config, last, config.tpLevels, TRUE, 1,
                            [pos |-> pos, actions |-> <<>>])
    IN LevelsForEach(config, last, config.slLevels, FALSE, 1, tp)

\* The full close of part A: the order for what remains, the flat position,
\* the trade counted, and the reverse open if `reverse` allows one.
CloseAndReverse(config, last, pos, stats, actions, finalCloseReason, reverse, mayOpen) ==
    LET isLong == pos.direction = "LONG"
        closeOrder == createPayload(config, last,
                                    IF isLong THEN "sell" ELSE "buy", "flat",
                                    finalCloseReason, "",
                                    pos.remainingQuantity * last.close,
                                    pos.remainingQuantity)
        actions1 == IF ~NearZero(pos.remainingQuantity)
                    THEN Append(actions, closeOrder) ELSE actions
        stats1 == [stats EXCEPT !.dailyTradeCount = @ + 1]
        newQty == QtyFor(config.tradeAmount, last.close)
        tradeVal == config.tradeAmount * QTY_SCALE
    IN IF reverse /\ isLong /\ config.reverseLongToShort /\ mayOpen
       THEN [newPositionState |-> OpenedPosition("SHORT", newQty, last),
             newTradeStats |-> stats1,
             actions |-> Append(actions1,
                 createPayload(config, last, "sell", "short",
                               "reverse: open short", "", tradeVal, newQty))]
       ELSE IF reverse /\ ~isLong /\ config.reverseShortToLong /\ mayOpen
       THEN [newPositionState |-> OpenedPosition("LONG", newQty, last),
             newTradeStats |-> stats1,
             actions |-> Append(actions1,
                 createPayload(config, last, "buy", "long",
                               "reverse: open long", "", tradeVal, newQty))]
       ELSE [newPositionState |-> FlatPosition, newTradeStats |-> stats1,
             actions |-> actions1]

\* The full close with a reverse open that does not look at manualTakeover.
FullClose_ReverseUnderTakeover(config, last, pos, stats, actions, finalCloseReason, signalReason, mayOpen) ==
    CloseAndReverse(config, last, pos, stats, actions, finalCloseReason,
                    config.useReverse /\ finalCloseReason = signalReason,
                    mayOpen)

\* The full close with a reverse open after any close, signal exit or not.
FullClose_ReverseOnAnyClose(config, last, pos, stats, actions, finalCloseReason, signalReason, mayOpen) ==
    CloseAndReverse(config, last, pos, stats, actions, finalCloseReason,
                    config.useReverse /\ ~config.manualTakeover, mayOpen)

\* The reverse open follows a signal exit only (isSignalExit), and not
\* under manual takeover.
FullClose(config, last, pos, stats, actions, finalCloseReason, signalReason, mayOpen) ==
    CloseAndReverse(config, last, pos, stats, actions, finalCloseReason,
                    /\ config.useReverse
                    /\ finalCloseReason = signalReason
                    /\ ~config.manualTakeover,
                    mayOpen)

\* A ladder that runs although the tick already has a close reason.
multiLevelGuard_DespiteReason(config, finalCloseReason) ==
    config.useMultiTPSL /\ ~config.useTrailingStop

\* The ladder runs with useMultiTPSL set, the trailing stop off and no close
\* reason found so far in the tick.
multiLevelGuard(config, finalCloseReason) ==
    /\ config.useMultiTPSL /\ ~config.useTrailingStop
    /\ finalCloseReason = NoReason

\* Part A: exits and updates of a held position.  `closed` tells whether
\* the function returned from the full close.
CheckExits(config, last, prev, pos, stats) ==
    LET isLong == pos.direction = "LONG"
        \* The end of part A: the full close, or the position as the
        \* levels left it.
        AfterLevels(signalReason, reason, multi) ==
            LET finalCloseReason ==
                    IF NearZero(multi.pos.remainingQuantity) /\ reason = NoReason
                    THEN "all take profit / stop loss levels done"
                    ELSE reason
            IN IF finalCloseReason # NoReason
               THEN [closed |-> TRUE,
                     result |-> FullClose(config, last, multi.pos, stats,
                                          multi.actions, finalCloseReason,
                                          signalReason, canOpen(stats, config))]
               ELSE [closed |-> FALSE,
                     result |-> [newPositionState |-> multi.pos,
                                 newTradeStats |-> stats,
                                 actions |-> multi.actions]]
        \* Multi-level take profit and stop loss.
        AfterTrail(signalReason, trail) ==
            AfterLevels(signalReason, trail.reason,
                        IF multiLevelGuard(config, trail.reason)
                        THEN MultiLevel(config, trail.pos, last)
                        ELSE [pos |-> trail.pos, actions |-> <<>>])
        \* The trailing stop.
        AfterFixed(signalReason, reason) ==
            AfterTrail(signalReason,
                       IF config.useTrailingStop /\ reason = NoReason
                       THEN TrailingStop(config, pos, last)
                       ELSE [pos |-> pos, reason |-> reason])
        \* Fixed take profit and stop loss.
        AfterSignal(signalReason) ==
            AfterFixed(signalReason,
                       IF config.useFixedTPSL /\ ~config.useTrailingStop
                          /\ ~config.useMultiTPSL /\ signalReason = NoReason
                       THEN FixedCloseReason(config, pos, last)
                       ELSE signalReason)
    IN AfterSignal(IF isLong THEN exitLongReason(config, last, prev)
                             ELSE exitShortReason(config, last, prev))

\* A pending pullback that triggers on every tick.
reversionTrigger_Always(config, last, pos) == TRUE

\* trigger: the close has come back to targetPrice = EMA7 * (1 +
\* reversionPct / 100), from above for a pending LONG, from below for a
\* pending SHORT.
reversionTrigger(config, last, pos) ==
    \/ /\ pos.pendingReversion = "LONG"
       /\ last.close * 100 <= last.ema7 * (100 + config.reversionPct)
    \/ /\ pos.pendingReversion = "SHORT"
       /\ last.close * 100 >= last.ema7 * (100 + config.reversionPct)

\* Part B: entries of a flat strategy, at once or after a pullback to EMA7.
CheckEntries(config, last, prev, pos, stats) ==
    LET qty == QtyFor(config.tradeAmount, last.close)
        tradeVal == config.tradeAmount * QTY_SCALE
        longReason == longEntryReason(config, last, prev)
        shortReason == shortEntryReason(config, last, prev)
        keep(p) == [newPositionState |-> p, newTradeStats |-> stats,
                    actions |-> <<>>]
        open(direction, comment, suffix) ==
            [newPositionState |-> OpenedPosition(direction, qty, last),
             newTradeStats |-> stats,
             actions |-> <<createPayload(config, last,
                               IF direction = "LONG" THEN "buy" ELSE "sell",
                               toLowerCase(direction), comment, suffix,
                               tradeVal, qty)>>]
        trigger == reversionTrigger(config, last, pos)
    IN IF config.useReversionEntry /\ last.ema7 # 0
       THEN IF pos.pendingReversion # NoPending
            THEN IF trigger
                 THEN open(pos.pendingReversion, pos.pendingReversionReason,
                           " (EMA7 reversion)")
                 ELSE IF shortReason # NoReason /\ pos.pendingReversion = "LONG"
                 THEN keep([pos EXCEPT !.pendingReversion = "SHORT",
                                       !.pendingReversionReason = shortReason])
                 ELSE IF longReason # NoReason /\ pos.pendingReversion = "SHORT"
                 THEN keep([pos EXCEPT !.pendingReversion = "LONG",
                                       !.pendingReversionReason = longReason])
                 ELSE keep(pos)
            ELSE IF longReason # NoReason
                 THEN keep([pos EXCEPT !.pendingReversion = "LONG",
                                       !.pendingReversionReason = longReason])
                 ELSE IF shortReason # NoReason
                 THEN keep([pos EXCEPT !.pendingReversion = "SHORT",
                                       !.pendingReversionReason = shortReason])
                 ELSE keep(pos)
       ELSE IF longReason # NoReason THEN open("LONG", longReason, "")
            ELSE IF shortReason # NoReason THEN open("SHORT", shortReason, "")
            ELSE keep(pos)

\* evaluateStrategy going on to the entries after a full close.
evaluateStrategy_EntriesAfterClose(candles, config, currentPosition, tradeStats, dateKey) ==
    LET nextStats == IF tradeStats.lastTradeDate # dateKey
                     THEN [dailyTradeCount |-> 0, lastTradeDate |-> dateKey]
                     ELSE tradeStats
        exits == CheckExits(config, candles.last, candles.prev, currentPosition,
                            nextStats)
        kept == [newPositionState |-> currentPosition,
                 newTradeStats |-> nextStats, actions |-> <<>>]
        entries == CheckEntries(config, candles.last, candles.prev,
                                exits.result.newPositionState,
                                exits.result.newTradeStats)
    IN IF candles.length < MIN_CANDLES \/ ~config.isActive
       THEN [kept EXCEPT !.newTradeStats = tradeStats]
       ELSE IF candles.last.ema7 = Undefined \/ candles.last.ema25 = Undefined
               \/ candles.last.ema99 = Undefined
       THEN kept
       ELSE IF currentPosition.direction # "FLAT"
       THEN IF exits.result.newPositionState.direction = "FLAT"
               /\ canOpen(nextStats, config) /\ ~config.manualTakeover
            THEN [entries EXCEPT !.actions = exits.result.actions \o @]
            ELSE exits.result
       ELSE IF canOpen(nextStats, config) /\ ~config.manualTakeover
       THEN CheckEntries(config, candles.last, candles.prev, currentPosition,
                         nextStats)
       ELSE kept

\* evaluateStrategy with the daily reset made before the validation.
evaluateStrategy_ResetFirst(candles, config, currentPosition, tradeStats, dateKey) ==
    LET nextStats == IF tradeStats.lastTradeDate # dateKey
                     THEN [dailyTradeCount |-> 0, lastTradeDate |-> dateKey]
                     ELSE tradeStats
        exits == CheckExits(config, candles.last, candles.prev, currentPosition,
                            nextStats)
        kept == [newPositionState |-> currentPosition,
                 newTradeStats |-> nextStats, actions |-> <<>>]
    IN IF candles.length < MIN_CANDLES \/ ~config.isActive THEN kept
       ELSE IF candles.last.ema7 = Undefined \/ candles.last.ema25 = Undefined
               \/ candles.last.ema99 = Undefined
       THEN kept
       ELSE IF currentPosition.direction # "FLAT" THEN exits.result
       ELSE IF canOpen(nextStats, config) /\ ~config.manualTakeover
       THEN CheckEntries(config, candles.last, candles.prev, currentPosition,
                         nextStats)
       ELSE kept

\* evaluateStrategy(candles, config, currentPosition, tradeStats); dateKey is
\* the calendar day the function reads from the clock.
evaluateStrategy(candles, config, currentPosition, tradeStats, dateKey) ==
    LET last == candles.last
        prev == candles.prev
        unchanged == [newPositionState |-> currentPosition,
                      newTradeStats |-> tradeStats, actions |-> <<>>]
        nextStats == IF tradeStats.lastTradeDate # dateKey
                     THEN [dailyTradeCount |-> 0, lastTradeDate |-> dateKey]
                     ELSE tradeStats
        exits == CheckExits(config, last, prev, currentPosition, nextStats)
    IN IF candles.length < MIN_CANDLES \/ ~config.isActive THEN unchanged
       ELSE IF last.ema7 = Undefined \/ last.ema25 = Undefined
               \/ last.ema99 = Undefined
       THEN [unchanged EXCEPT !.newTradeStats = nextStats]
       ELSE IF currentPosition.direction # "FLAT"
       THEN exits.result
       ELSE IF canOpen(nextStats, config) /\ ~config.manualTakeover
       THEN CheckEntries(config, last, prev, currentPosition, nextStats)
       ELSE [unchanged EXCEPT !.newTradeStats = nextStats]

(***************************************************************************)
(* server/StrategyRunner.ts: the runtime of one strategy and the handlers  *)
(* that change it.  `sent` is the sequence of payloads the handler passed  *)
(* to sendWebhook.  The indicator values enrichCandlesWithIndicators adds  *)
(* are part of the batch: any values may come out of it.                   *)
(***************************************************************************)
\* candles[0].symbol of a batch whose candles carry no symbol field.
NoSymbol == ""
\* runtime.candles = []
NoCandles == [symbol |-> NoSymbol, length |-> 0]

toUpperCase(symbol) ==
    CASE symbol = "btcusdt" -> "BTCUSDT"
      [] symbol = "ethusdt" -> "ETHUSDT"
      [] OTHER -> symbol

\* The view a shard of `symbol` delivers for a target interval: its base
\* candles, which fetchHistoricalCandles and parseSocketMessage tag with the
\* symbol, or the candles resampleCandles builds, which have no symbol field.
DeliveredView(symbol, resampled, length, last, prev) ==
    [symbol |-> IF resampled THEN NoSymbol ELSE symbol,
     length |-> length, last |-> last, prev |-> prev]

INITIAL_POS_STATE ==
    [direction |-> "FLAT", initialQuantity |-> 0, remainingQuantity |-> 0,
     entryPrice |-> 0, highestPrice |-> 0, lowestPrice |-> 0,
     tpLevelsHit |-> <<>>, slLevelsHit |-> <<>>,
     pendingReversion |-> NoPending, pendingReversionReason |-> NoReason]

INITIAL_STATS(dateKey) == [dailyTradeCount |-> 0, lastTradeDate |-> dateKey]

\* The runtime the constructor builds.
NewRuntime(config, dateKey) ==
    [config |-> config, candles |-> NoCandles,
     positionState |-> INITIAL_POS_STATE,
     tradeStats |-> INITIAL_STATS(dateKey), lastPrice |-> 0, sent |-> <<>>]

\* A manual position that records no entry price.
ManualPosition_NoEntryPrice(direction, qty, price) ==
    [direction |-> direction, initialQuantity |-> qty,
     remainingQuantity |-> qty, entryPrice |-> 0,
     highestPrice |-> IF direction = "LONG" THEN price ELSE 0,
     lowestPrice |-> IF direction = "SHORT" THEN price ELSE 0,
     tpLevelsHit |-> <<>>, slLevelsHit |-> <<>>,
     pendingReversion |-> NoPending, pendingReversionReason |-> NoReason]

\* The position a manual order or a manual takeover writes.
ManualPosition(direction, qty, price) ==
    [direction |-> direction, initialQuantity |-> qty,
     remainingQuantity |-> qty, entryPrice |-> price,
     highestPrice |-> IF direction = "LONG" THEN price ELSE 0,
     lowestPrice |-> IF direction = "SHORT" THEN price ELSE 0,
     tpLevelsHit |-> <<>>, slLevelsHit |-> <<>>,
     pendingReversion |-> NoPending, pendingReversionReason |-> NoReason]

ManualPayload(config, act, pos, comment, amountVal, price, qty) ==
    [action |-> act, position |-> pos, symbol |-> config.symbol,
     tp_level |-> comment, suffix |-> "", trade_amount |-> amountVal,
     execution_price |-> price, execution_quantity |-> qty]

initializeManualPosition(runtime, config) ==
    LET direction == config.takeoverDirection
        qty == config.takeoverQuantity
        price == runtime.lastPrice
    IN IF direction = "FLAT"
       THEN [runtime EXCEPT !.positionState = INITIAL_POS_STATE]
       ELSE [runtime EXCEPT
                !.positionState = ManualPosition(direction, qty, price),
                !.sent = <<ManualPayload(config,
                               IF direction = "LONG" THEN "buy" ELSE "sell",
                               toLowerCase(direction), "Manual_Takeover_Init",
                               qty * price, price, qty)>>]

\* updateConfig for a configuration with the same symbol and interval (the
\* other case re-subscribes: RunnerUpdateConfig).
updateConfig(runtime, newConfig) ==
    LET wasManual == runtime.config.manualTakeover
        replaced == [runtime EXCEPT !.config = newConfig, !.sent = <<>>]
    IN IF ~wasManual /\ newConfig.manualTakeover
       THEN initializeManualPosition(replaced, newConfig)
       ELSE replaced

handleManualOrder(runtime, type) ==
    LET price == runtime.lastPrice
        config == runtime.config
        held == runtime.positionState
        opening == type \in {"LONG", "SHORT"}
        act == CASE type = "LONG" -> "buy"
                 [] type = "SHORT" -> "sell"
                 [] OTHER -> IF held.direction = "LONG" THEN "sell"
                                                        ELSE "buy_to_cover"
        quantity == IF opening THEN QtyFor(config.tradeAmount, price)
                               ELSE held.remainingQuantity
        tradeAmount == IF opening THEN config.tradeAmount * QTY_SCALE
                                  ELSE quantity * price
        payload == ManualPayload(config, act, toLowerCase(type),
                                 "manual order", tradeAmount, price, quantity)
    IN IF price = 0 THEN [runtime EXCEPT !.sent = <<>>]
       ELSE IF type = "FLAT"
       THEN [runtime EXCEPT !.positionState = INITIAL_POS_STATE,
                            !.sent = <<payload>>]
       ELSE [runtime EXCEPT !.positionState = ManualPosition(type, quantity, price),
                            !.tradeStats.dailyTradeCount = @ + 1,
                            !.sent = <<payload>>]

handleDataUpdate(runtime, candles, dateKey) ==
    LET incomingSymbol == candles.symbol
        result == evaluateStrategy(candles, runtime.config,
                                   runtime.positionState, runtime.tradeStats,
                                   dateKey)
    IN IF candles.length = 0 THEN [runtime EXCEPT !.sent = <<>>]
       ELSE IF incomingSymbol # NoSymbol
               /\ toUpperCase(incomingSymbol) # toUpperCase(runtime.config.symbol)
       THEN [runtime EXCEPT !.sent = <<>>]
       ELSE [runtime EXCEPT !.lastPrice = candles.last.close,
                            !.candles = candles,
                            !.positionState = result.newPositionState,
                            !.tradeStats = result.newTradeStats,
                            !.sent = result.actions]

(***************************************************************************)
(* The strategy runtime as a state machine.  rt is the runtime of one      *)
(* strategy; env holds what surrounds it: the calendar day, the batch the  *)
(* last handler received and where it came from, the runtime as it was     *)
(* when the last handler started, and the quantities ordered since the     *)
(* position was opened.                                                    *)
(***************************************************************************)
\* Last calendar day of a behaviour.
MaxDay == 2
\* maxDailyTrades of the configurations.
MaxDailyTrades == 1
\* dailyTradeCount a behaviour may reach (manual orders are not limited).
MaxTradeCount == 2

Days == 1..MaxDay

\* Low, close and high of the last candle: low <= close <= high.
PriceBars ==
    {[low |-> 10, close |-> 10, high |-> 10],
     [low |-> 8, close |-> 10, high |-> 12],
     [low |-> 10, close |-> 12, high |-> 12],
     [low |-> 8, close |-> 8, high |-> 10]}

Ema(a, b, c) == [ema7 |-> a, ema25 |-> b, ema99 |-> c]

\* The three averages in an uptrend, in a downtrend and in three orders
\* between, and a candle without them.
EmaLast ==
    {Ema(11, 10, 9), Ema(9, 10, 11), Ema(10, 9, 11), Ema(10, 11, 9),
     Ema(9, 11, 10), Ema(Undefined, Undefined, Undefined)}
EmaPrev == {Ema(11, 10, 9), Ema(9, 10, 11)}

Macd(line, signal) == [macdLine |-> line, macdSignal |-> signal]

\* MACD absent, a golden cross, a death cross.
MacdScenes ==
    {[last |-> Macd(Undefined, Undefined), prev |-> Macd(Undefined, Undefined)],
     [last |-> Macd(2, 1), prev |-> Macd(1, 2)],
     [last |-> Macd(1, 2), prev |-> Macd(2, 1)]}

LastCandle(bar, closed, ema, macd) ==
    [low |-> bar.low, close |-> bar.close, high |-> bar.high,
     isClosed |-> closed, ema7 |-> ema.ema7, ema25 |-> ema.ema25,
     ema99 |-> ema.ema99, macdLine |-> macd.macdLine,
     macdSignal |-> macd.macdSignal]

PrevCandle(ema, macd) ==
    [ema7 |-> ema.ema7, ema25 |-> ema.ema25, ema99 |-> ema.ema99,
     macdLine |-> macd.macdLine, macdSignal |-> macd.macdSignal]

\* The enriched batches of `length` candles a shard of `symbol` delivers.
Batches(symbol, resampled, length, closedness, emaLast, emaPrev, macdScenes) ==
    {DeliveredView(symbol, resampled, length,
                   LastCandle(bar, closed, el, m.last), PrevCandle(ep, m.prev)) :
        bar \in PriceBars, closed \in closedness, el \in emaLast,
        ep \in emaPrev, m \in macdScenes}

TpLevels ==
    <<[active |-> TRUE, pct |-> 20, qtyPct |-> 50],
      [active |-> TRUE, pct |-> 50, qtyPct |-> 50],
      [active |-> FALSE, pct |-> 20, qtyPct |-> 50]>>
SlLevels ==
    <<[active |-> TRUE, pct |-> 20, qtyPct |-> 50],
      [active |-> TRUE, pct |-> 20, qtyPct |-> 75]>>

\* An active configuration with every signal family switched on and no
\* risk rule; the configurations of the model differ from it in the fields
\* named below.
BaseConfig ==
    [isActive |-> TRUE, symbol |-> "BTCUSDT", interval |-> "1m",
     tradeAmount |-> 120, triggerOnClose |-> FALSE,
     manualTakeover |-> FALSE, takeoverDirection |-> "FLAT",
     takeoverQuantity |-> 0,
     trendFilterBlockShort |-> FALSE, trendFilterBlockLong |-> FALSE,
     useEMA7_25 |-> TRUE, ema7_25_Long |-> TRUE, ema7_25_Short |-> TRUE,
     ema7_25_ExitLong |-> TRUE, ema7_25_ExitShort |-> TRUE,
     useEMA7_99 |-> TRUE, ema7_99_Long |-> TRUE, ema7_99_Short |-> TRUE,
     ema7_99_ExitLong |-> TRUE, ema7_99_ExitShort |-> TRUE,
     useEMA25_99 |-> TRUE, ema25_99_Long |-> TRUE, ema25_99_Short |-> TRUE,
     ema25_99_ExitLong |-> TRUE, ema25_99_ExitShort |-> TRUE,
     useEMADouble |-> TRUE, emaDoubleLong |-> TRUE, emaDoubleShort |-> TRUE,
     emaDoubleExitLong |-> TRUE, emaDoubleExitShort |-> TRUE,
     useMACD |-> TRUE, macdLong |-> TRUE, macdShort |-> TRUE,
     macdExitLong |-> TRUE, macdExitShort |-> TRUE,
     useTrailingStop |-> FALSE, trailActivation |-> 20, trailDistance |-> 20,
     useFixedTPSL |-> FALSE, takeProfitPct |-> 20, stopLossPct |-> 20,
     useMultiTPSL |-> FALSE, tpLevels |-> TpLevels, slLevels |-> SlLevels,
     useReverse |-> FALSE, reverseLongToShort |-> TRUE,
     reverseShortToLong |-> TRUE,
     useReversionEntry |-> FALSE, reversionPct |-> 0,
     maxDailyTrades |-> MaxDailyTrades]

RiskModes == {"none", "fixed", "trailing", "multi"}

WithRisk(config, mode) ==
    [config EXCEPT !.useFixedTPSL = (mode = "fixed"),
                   !.useTrailingStop = (mode = "trailing"),
                   !.useMultiTPSL = (mode = "multi")]

\* An order that opens a position, and one that closes all or part of one.
IsOpenOrder(o) ==
    \/ o.action = "buy" /\ o.position = "long"
    \/ o.action = "sell" /\ o.position = "short"
IsCloseOrder(o) == ~IsOpenOrder(o)

\* Quantity ordered closed since the last order that opened a position,
\* after the orders of `sent` from the k-th on.
RECURSIVE ClosedAfter(_, _, _)
ClosedAfter(sent, k, closedQty) ==
    IF k > Len(sent) THEN closedQty
    ELSE ClosedAfter(sent, k + 1,
                     IF IsOpenOrder(sent[k]) THEN 0
                     ELSE closedQty + sent[k].execution_quantity)

\* No batch was received.
NoBatch == [from |-> NoSymbol, resampled |-> FALSE]
\* No handler has started.
NoRuntime == [handler |-> "none"]

IdleEnv ==
    [today |-> 1, handler |-> "none", received |-> NoBatch,
     before |-> NoRuntime, closedQty |-> 0, openedQty |-> 0,
     opens |-> 0]

\* env after a handler that turned the runtime `before` into `after`.
Track(handler, received, before, after) ==
    [env EXCEPT !.handler = handler, !.received = received,
                !.closedQty = ClosedAfter(after.sent, 1, @),
                !.openedQty = IF \E k \in 1..Len(after.sent) :
                                     IsOpenOrder(after.sent[k])
                              THEN after.positionState.initialQuantity
                              ELSE @]

\* No strategy is under evaluation.
IdleStrategy == rt = NewRuntime(BaseConfig, 1) /\ env = IdleEnv

\* No call of resampleCandles is under check.
NoResample == [done |-> FALSE]
IdleResample == rs = NoResample

(***************************************************************************)
(* The state machine.                                                      *)
(***************************************************************************)
State ==
    [streams |-> streams, sh |-> sh, timers |-> timers, rn |-> rn,
     disk |-> disk, saved |-> saved, ovf |-> FALSE]

\* The step to state st; a handler that would exceed a bound is not taken.
Commit(st) ==
    /\ ~st.ovf
    /\ streams' = st.streams
    /\ sh' = st.sh
    /\ timers' = st.timers
    /\ rn' = st.rn
    /\ disk' = st.disk
    /\ saved' = st.saved
    /\ UNCHANGED <<rt, env, rs>>

\* The snapshots of the runners held in `strategies`.  Of getSnapshot()
\* the model keeps the id, the symbol and the interval of the configuration.
Snapshots(runners) ==
    {[id |-> r, symbol |-> runners[r].symbol, interval |-> runners[r].interval] :
        r \in {q \in Runners : runners[q].status = "live"}}

\* saveSystemState(): the 'strategies' file is written only if there is a
\* snapshot to write.
saveSystemState(st) ==
    IF Snapshots(st.rn) # {} THEN [st EXCEPT !.saved = Snapshots(st.rn)]
    ELSE st

\* The ids of the strategies initializeSystem() restores from a file with
\* snapshots in it.
RestoredIds(file) == {snapshot.id : snapshot \in file}

\* Strategy ids are fresh random strings: the model hands them out in order.
RunnerOrder(r) == IF r = "s1" THEN 1 ELSE 2

\* cmd_add_strategy: a runner with the default configuration is started.
AddStrategy(r) ==
    /\ rn[r].status = "none"
    /\ \A q \in Runners : RunnerOrder(q) < RunnerOrder(r) => rn[q].status # "none"
    /\ Commit(saveSystemState(RunnerStart(
           [State EXCEPT !.rn[r] = [status |-> "live",
                                    symbol |-> DEFAULT_CONFIG.symbol,
                                    interval |-> DEFAULT_CONFIG.interval,
                                    isRunning |-> FALSE]], r)))
    /\ UNCHANGED now

\* cmd_update_config.
UpdateConfig(r, symbol, interval) ==
    /\ rn[r].status = "live"
    /\ Commit(saveSystemState(RunnerUpdateConfig(State, r, symbol, interval)))
    /\ UNCHANGED now

\* cmd_remove_strategy.
RemoveStrategy(r) ==
    /\ rn[r].status = "live"
    /\ Commit(saveSystemState(
           [RunnerStop(State, r) EXCEPT !.rn[r].status = "removed"]))
    /\ UNCHANGED now

\* DataEngine.ensureActive(symbol), over the available intervals of the model.
EnsureActive(symbol) ==
    /\ Commit(EnsureActiveFrom(State, symbol,
                  SelectSeq(AVAILABLE_INTERVALS, LAMBDA i : i \in Intervals), 1))
    /\ UNCHANGED now

\* initialize() of shard s completes; the DataEngine.subscribe call that
\* awaited it goes on to stream.subscribe.
InitializeDone(s, okPages) ==
    /\ sh[s].alloc /\ sh[s].phase \in {"local", "deep"}
    /\ LET st1 == FinishInitialize(State, s, now, okPages)
           creator == sh[s].creator
       IN Commit(IF creator = NoCreator THEN st1
                 ELSE StreamSubscribe([st1 EXCEPT !.sh[s].creator = NoCreator],
                                      s, creator[1], creator[2]))
    /\ UNCHANGED now

KEEP_ALIVE_MS == 60000
RECONNECT_MS == 5000
Delay(timer) == IF timer.kind = "destroy" THEN KEEP_ALIVE_MS ELSE RECONNECT_MS

\* A timer runs before every timer armed later with no shorter delay.
CanFire(k) == \A j \in 1..(k - 1) : Delay(timers[j]) > Delay(timers[k])

\* The k-th pending timer runs.
FireTimer(k) ==
    /\ k \in 1..Len(timers) /\ CanFire(k)
    /\ LET timer == timers[k]
           s == timer.s
           st1 == [State EXCEPT !.timers = RemoveAt(@, k)]
       IN IF timer.kind = "reconnect" THEN Commit(connect(st1, s))
          ELSE LET st2 == IF timer.cur
                          THEN [st1 EXCEPT !.sh[s].destroyTimeout = "fired"]
                          ELSE st1
               IN IF DestroyTimerDestroys(st2.sh[s])
                  THEN Commit(OnDestroyed(destroy(st2, s, timer.stale), s))
                  ELSE Commit(st2)
    /\ UNCHANGED now

\* The websocket of shard s closes.
WsClose(s) ==
    /\ sh[s].alloc /\ sh[s].ws = "open"
    /\ Commit(OnWsClose([State EXCEPT !.sh[s].ws = "closed"], s))
    /\ UNCHANGED now

\* The exchange pushes a kline of the stream (symbol, baseInterval) to every
\* websocket open on it.  A closing kline (x = true) ends the open candle;
\* the clock is driven by the 1m stream.
Tick(symbol, baseInterval, closed, saveDue) ==
    LET w == intervalToMs(baseInterval)
        newCandle == Candle(FloorTo(now * TickMs, w), closed)
        open == {s \in ShardIds : /\ sh[s].alloc /\ sh[s].ws = "open"
                                  /\ sh[s].symbol = symbol
                                  /\ sh[s].baseInterval = baseInterval}
        res(s) == processNewCandle(sh[s], disk, newCandle, saveDue)
    IN /\ closed => (w = TickMs /\ now < MaxTime)
       /\ closed \/ open # {}
       /\ sh' = [s \in ShardIds |-> IF s \in open THEN res(s).shard ELSE sh[s]]
       /\ IF open = {} THEN disk' = disk
          ELSE \E lastWriter \in open : disk' = res(lastWriter).disk
       /\ now' = IF closed THEN now + 1 ELSE now
       /\ UNCHANGED <<streams, timers, rn, saved, rt, env, rs>>

\* The data engine before any command: no shard, no timer, no runner, no file.
EngineIdle ==
    /\ streams = [k \in Keys |-> NoShard]
    /\ sh = [s \in ShardIds |-> BlankShard]
    /\ timers = <<>>
    /\ rn = [r \in Runners |-> [status |-> "none",
                                symbol |-> DEFAULT_CONFIG.symbol,
                                interval |-> DEFAULT_CONFIG.interval,
                                isRunning |-> FALSE]]
    /\ disk = [k \in Keys |-> <<>>]
    /\ saved = {}
    /\ now = 0

Init == EngineIdle /\ IdleStrategy /\ IdleResample

\* The lifecycle of shards and runners: every command of the supervisor, every
\* timer and every websocket close, with the exchange clock standing still.
\* ensureActive is a public method of DataEngine and may be called at any
\* time; the supervisor calls it before it starts its strategies.
Next ==
    \/ \E r \in Runners : AddStrategy(r)
    \/ \E r \in Runners, sym \in Symbols, i \in Intervals : UpdateConfig(r, sym, i)
    \/ \E r \in Runners : RemoveStrategy(r)
    \/ \E sym \in Symbols : EnsureActive(sym)
    \/ \E s \in ShardIds : InitializeDone(s, DEEP_PAGES)
    \/ \E k \in 1..MaxTimers : FireTimer(k)
    \/ \E s \in ShardIds : WsClose(s)

Spec == Init /\ [][Next]_vars

\* The data path of the 1m stream: the clock runs, requests may fail, ticks
\* arrive, one strategy subscribes to the 1m and 2m views of the stream.  The
\* process starts with the file an earlier run of it may have left: nothing,
\* or a window of the stream's closed candles, of at most MAX_CANDLES + 1
\* candles (processNewCandle saves before it trims), whose last candle may
\* have been saved while it was open.
DataIntervals == {"1m", "2m"}
DataRunners == {"s1"}

PersistedFiles(clock) ==
    LET hist == HistoryUpTo(TickMs, clock * TickMs)
        windows == {SubSeq(hist, a, b) : a \in 1..Len(hist), b \in 1..Len(hist)}
        sized == {f \in windows : Len(f) >= 1 /\ Len(f) <= MAX_CANDLES + 1}
    IN {<<>>} \cup sized
       \cup {[f EXCEPT ![Len(f)].isClosed = FALSE] : f \in sized}

InitData ==
    /\ streams = [k \in Keys |-> NoShard]
    /\ sh = [s \in ShardIds |-> BlankShard]
    /\ timers = <<>>
    /\ rn = [r \in Runners |-> [status |-> "none",
                                symbol |-> DEFAULT_CONFIG.symbol,
                                interval |-> DEFAULT_CONFIG.interval,
                                isRunning |-> FALSE]]
    /\ now \in 0..(MaxTime - 1)
    /\ \E f \in PersistedFiles(now) :
           disk = [k \in Keys |-> IF k = StreamKey("BTCUSDT", "1m") THEN f ELSE <<>>]
    /\ saved = {}
    /\ IdleStrategy /\ IdleResample

NextData ==
    \/ \E r \in DataRunners : AddStrategy(r)
    \/ \E r \in DataRunners, sym \in Symbols, i \in DataIntervals :
           UpdateConfig(r, sym, i)
    \/ \E r \in DataRunners : RemoveStrategy(r)
    \/ \E s \in ShardIds, okPages \in 0..DEEP_PAGES : InitializeDone(s, okPages)
    \/ \E k \in 1..MaxTimers : FireTimer(k)
    \/ \E s \in ShardIds : WsClose(s)
    \/ \E sym \in Symbols, closed \in BOOLEAN, saveDue \in BOOLEAN :
           Tick(sym, "1m", closed, saveDue)

SpecData == InitData /\ [][NextData]_vars

(***************************************************************************)
(* Properties of the shard lifecycle, stated over Spec.                    *)
(***************************************************************************)
Allocated == {s \in ShardIds : sh[s].alloc}

\* The registry maps the shard's key to the shard.
Registered(s) == sh[s].alloc /\ streams[getStoreKey(sh[s])] = s

\* The shard's initialize() is pending.
Initializing(s) == sh[s].alloc /\ sh[s].phase \in {"local", "deep"}

\* A DataEngine.subscribe call of runner r awaits the shard's initialize().
Awaited(s, r) ==
    Initializing(s) /\ sh[s].creator # NoCreator /\ sh[s].creator[1] = r

\* The shard holds an upstream subscription or is about to open one: its
\* websocket is open, its initialize() will call connect(), or a reconnect
\* timer of it is armed.
Upstream(s) ==
    /\ sh[s].alloc
    /\ \/ sh[s].ws = "open"
       \/ Initializing(s)
       \/ \E k \in 1..Len(timers) : timers[k].kind = "reconnect" /\ timers[k].s = s

SubscribedIn(s, r) ==
    \E i \in DOMAIN sh[s].subscribers : r \in Range(sh[s].subscribers[i])

\* Every registration of runner r's callback: <<shard, interval, place>>,
\* place 0 standing for a DataEngine.subscribe call that is still awaiting.
RegistrationsOf(r) ==
    {<<s, i, k>> \in UNION {UNION {{<<s, i, k>> : k \in 1..Len(sh[s].subscribers[i])} :
                                       i \in DOMAIN sh[s].subscribers} :
                               s \in Allocated} : sh[s].subscribers[i][k] = r}
    \cup {<<s, sh[s].creator[2], 0>> : s \in {t \in Allocated : Awaited(t, r)}}

\* C1: for every (symbol, baseInterval) at most one shard holds an open or
\* about-to-open upstream subscription, and a shard that was destroyed and
\* removed from the registry neither opens an upstream connection nor holds
\* a subscriber.
C1_OneUpstreamPerKey ==
    /\ \A s1, s2 \in Allocated :
          (s1 # s2 /\ getStoreKey(sh[s1]) = getStoreKey(sh[s2]))
              => ~(Upstream(s1) /\ Upstream(s2))
    /\ \A s \in Allocated :
          (sh[s].destroys > 0 /\ ~Registered(s))
              => (sh[s].ws # "open" /\ ~hasSubscribers(sh[s]))

\* C2: once a runner is stopped and no DataEngine.subscribe call of it is
\* still awaiting, its callback is registered in no shard.
C2_StoppedRunnerUnsubscribed ==
    \A r \in Runners :
        (rn[r].status # "none" /\ ~rn[r].isRunning
            /\ \A s \in Allocated : ~Awaited(s, r))
        => \A s \in Allocated : ~SubscribedIn(s, r)

\* C3: a step that changes a live runner's symbol or interval (updateConfig)
\* leaves the runner's id in no subscriber list of the old (symbol, interval)
\* and registered exactly once, for the new (symbol, interval).
C3_UpdateConfigMovesSubscription ==
    [][\A r \in Runners :
          (/\ rn[r].status = "live" /\ rn'[r].status = "live"
           /\ (rn'[r].symbol # rn[r].symbol \/ rn'[r].interval # rn[r].interval))
          => /\ \A x \in RegistrationsOf(r)' :
                   ~(sh'[x[1]].symbol = rn[r].symbol /\ x[2] = rn[r].interval)
             /\ \A x \in RegistrationsOf(r)' :
                   sh'[x[1]].symbol = rn'[r].symbol /\ x[2] = rn'[r].interval
             /\ Cardinality(RegistrationsOf(r)') = 1]_vars

\* C4: destroy() runs on a shard only in a step that starts with the shard's
\* subscriber set empty and its alwaysActive flag false, and the step leaves
\* no registry entry under the shard's key.
C4_DestroyedOnlyWhenIdle ==
    [][\A s \in ShardIds :
          sh'[s].destroys > sh[s].destroys
          => /\ ~hasSubscribers(sh[s])
             /\ ~sh[s].isAlwaysActive
             /\ streams'[getStoreKey(sh[s])] = NoShard]_vars

\* A shard has been destroyed and is out of the registry, while another
\* shard, which has subscribers, is still registered.
C4_Witness ==
    \E s \in Allocated :
        /\ sh[s].destroys > 0 /\ ~Registered(s)
        /\ \E t \in Allocated :
               t # s /\ Registered(t) /\ hasSubscribers(sh[t]) /\ sh[t].destroys = 0

\* C5: no shard is destroyed by a timer that was armed before a subscribe()
\* on the shard.
C5_NoDestroyByEarlierTimer ==
    \A s \in ShardIds : sh[s].staleDestroys = 0

\* C6: a shard to which setAlwaysActive(true) was applied keeps the flag,
\* is never destroyed and stays in the registry.
C6_AlwaysActiveStays ==
    \A s \in Allocated :
        sh[s].prewarmed
        => /\ sh[s].isAlwaysActive
           /\ sh[s].destroys = 0
           /\ Registered(s)

\* The lifecycle again, with strategies moving between the 1m and the 3m
\* stream, and with timers that run: the pending timer that was armed first
\* eventually fires.
LiveIntervals == {"1m", "3m"}

NextLive ==
    \/ \E r \in Runners : AddStrategy(r)
    \/ \E r \in Runners, sym \in Symbols, i \in LiveIntervals :
           UpdateConfig(r, sym, i)
    \/ \E r \in Runners : RemoveStrategy(r)
    \/ \E sym \in Symbols : EnsureActive(sym)
    \/ \E s \in ShardIds : InitializeDone(s, DEEP_PAGES)
    \/ \E k \in 1..MaxTimers : FireTimer(k)
    \/ \E s \in ShardIds : WsClose(s)

FairSpec == Init /\ [][NextLive]_vars /\ WF_vars(FireTimer(1))

\* C7: under fair timers, a shard that is not always active and that a
\* DataEngine.unsubscribe call left without subscribers is eventually
\* destroyed and out of the registry, unless it gets a subscriber or becomes
\* always active before.
C7_IdleShardEventuallyDestroyed ==
    \A s \in ShardIds :
        (sh[s].alloc /\ sh[s].emptied /\ ~sh[s].isAlwaysActive)
        ~> (\/ sh[s].destroys > 0 /\ ~Registered(s)
            \/ hasSubscribers(sh[s])
            \/ sh[s].isAlwaysActive)

\* A shard that completed its initialize() was left without subscribers by
\* an unsubscribe and has been destroyed since, with no subscribe between.
C7_Witness ==
    \E s \in Allocated :
        /\ sh[s].emptied /\ sh[s].destroys > 0 /\ ~Registered(s)
        /\ sh[s].phase = "ready" /\ sh[s].staleDestroys = 0

(***************************************************************************)
(* Properties of the data path, stated over SpecData.                      *)
(***************************************************************************)
\* The subscriptions registered in shard s: <<strategyId, interval>>.
SubscriptionsOf(s) ==
    UNION {{<<subId, i>> : subId \in Range(sh[s].subscribers[i])} :
              i \in DOMAIN sh[s].subscribers}

\* C8: every registered subscription has received a batch, and the first
\* batch it received was the snapshot handed over by subscribe(), not a tick.
C8_SnapshotBeforeTick ==
    \A s \in Allocated :
        /\ SubscriptionsOf(s) \subseteq DOMAIN sh[s].got
        /\ \A x \in DOMAIN sh[s].got : sh[s].got[x].snap

\* A subscription got its snapshot and, later, a tick.
C8_Witness ==
    \E s \in Allocated : \E x \in SubscriptionsOf(s) :
        sh[s].got[x].snap /\ sh[s].got[x].ticked

\* C9: for every subscription, the openTime of the last candle of the
\* non-empty batches delivered to it never decreased.
C9_LastOpenTimeMonotone ==
    \A s \in Allocated : \A x \in DOMAIN sh[s].got : sh[s].got[x].mono

\* A subscription of the resampled 2m view received ticks, the last batch
\* ending in a candle that opened after the first 2m bucket, out of a base
\* buffer that is full and no longer starts at the first candle.
C9_Witness ==
    \E s \in Allocated : \E x \in SubscriptionsOf(s) :
        /\ x[2] = "2m" /\ sh[s].got[x].ticked
        /\ sh[s].got[x].last >= 2 * TickMs
        /\ Len(sh[s].baseCandles) = MAX_CANDLES
        /\ sh[s].baseCandles[1].time > 0

\* C10: once initialize() has completed the base buffer holds at most
\* MAX_CANDLES candles, and every batch delivered holds at most VIEW_CAP.
C10_BufferAndBatchCaps ==
    \A s \in Allocated :
        /\ sh[s].phase = "ready" => Len(sh[s].baseCandles) <= MAX_CANDLES
        /\ \A x \in DOMAIN sh[s].got : sh[s].got[x].len <= VIEW_CAP

\* A shard whose initialize() read a file of MAX_CANDLES + 1 candles has
\* completed it, holds a full buffer, and a tick delivered a full batch.
C10_Witness ==
    \E s \in Allocated :
        /\ sh[s].phase = "ready" /\ sh[s].fetchFrom > MAX_CANDLES * TickMs
        /\ Len(sh[s].baseCandles) = MAX_CANDLES
        /\ \E x \in SubscriptionsOf(s) :
               sh[s].got[x].ticked /\ sh[s].got[x].len = VIEW_CAP

\* C11: the base candles of every shard are strictly increasing in openTime.
C11_BaseCandlesStrictlyIncreasing ==
    \A s \in Allocated :
        \A k \in 1..(Len(sh[s].baseCandles) - 1) :
            sh[s].baseCandles[k].time < sh[s].baseCandles[k + 1].time

\* A shard that started from a persisted file holds a full buffer whose last
\* candle is the open candle a live tick brought.
C11_Witness ==
    \E s \in Allocated :
        /\ sh[s].phase = "ready" /\ sh[s].fetchFrom > 0
        /\ Len(sh[s].baseCandles) = MAX_CANDLES
        /\ sh[s].baseCandles[MAX_CANDLES].time = now * TickMs
        /\ ~sh[s].baseCandles[MAX_CANDLES].isClosed
        /\ now > 0

engineVars == <<streams, sh, timers, rn, disk, saved, now, rs>>

(***************************************************************************)
(* One call of handleDataUpdate, and through it of evaluateStrategy, on    *)
(* every configuration, position, statistics and batch of the sets below.  *)
(***************************************************************************)
\* The configurations: every combination of manual takeover, trigger mode,
\* trend filter, risk rule, and reverse with pullback entry; an inactive
\* one; one whose pullback entry accepts a close up to 20% off EMA7; and
\* fixed TP/SL switched on together with the trailing stop or the ladder.
EvalConfigs ==
    {[WithRisk(BaseConfig, mode) EXCEPT
          !.manualTakeover = mt, !.triggerOnClose = toc,
          !.trendFilterBlockLong = tf, !.trendFilterBlockShort = tf,
          !.useReverse = rv, !.useReversionEntry = rv] :
        mode \in RiskModes, mt \in BOOLEAN, toc \in BOOLEAN, tf \in BOOLEAN,
        rv \in BOOLEAN}
    \cup {[BaseConfig EXCEPT !.isActive = FALSE]}
    \cup {[BaseConfig EXCEPT !.useReversionEntry = TRUE, !.reversionPct = 20]}
    \cup {[WithRisk(BaseConfig, mode) EXCEPT !.useFixedTPSL = TRUE] :
             mode \in {"trailing", "multi"}}

\* A position of 12 units opened at price 10, whole or after its first
\* take-profit level, and a manual takeover position of quantity 0.
HeldPositions ==
    UNION {{ManualPosition(d, 12 * QTY_SCALE, 10),
            [ManualPosition(d, 12 * QTY_SCALE, 10) EXCEPT
                 !.remainingQuantity = 6 * QTY_SCALE, !.tpLevelsHit = <<TRUE>>],
            ManualPosition(d, 0, 10)} : d \in {"LONG", "SHORT"}}

\* Flat, waiting for no pullback or for one.
FlatPositions ==
    {INITIAL_POS_STATE,
     [INITIAL_POS_STATE EXCEPT
          !.pendingReversion = "LONG",
          !.pendingReversionReason = "EMA7 crosses above 25: open long"],
     [INITIAL_POS_STATE EXCEPT
          !.pendingReversion = "SHORT",
          !.pendingReversionReason = "EMA7 crosses below 25: open short"]}

EvalPositions == HeldPositions \cup FlatPositions

\* No trade today, the daily limit reached today, the limit reached on an
\* earlier day.
EvalStats ==
    {[dailyTradeCount |-> 0, lastTradeDate |-> MaxDay],
     [dailyTradeCount |-> MaxDailyTrades, lastTradeDate |-> MaxDay],
     [dailyTradeCount |-> MaxDailyTrades, lastTradeDate |-> 1]}

\* A batch with the symbol of the shard it comes from and whether the shard
\* resampled it.
Deliveries(from, resampled, length, closedness, emaLast, emaPrev, macdScenes) ==
    {[from |-> from, resampled |-> resampled, candles |-> c] :
        c \in Batches(from, resampled, length, closedness, emaLast, emaPrev,
                      macdScenes)}

\* Full batches of the strategy's own stream; batches too short to
\* evaluate; and, with one indicator scene, resampled batches of the own
\* stream, batches of a shard whose symbol is written in lower case, and
\* batches of another symbol's shard, base and resampled.
EvalDeliveries ==
    Deliveries("BTCUSDT", FALSE, MIN_CANDLES, BOOLEAN, EmaLast, EmaPrev,
               MacdScenes)
    \cup Deliveries("BTCUSDT", FALSE, MIN_CANDLES - 1, BOOLEAN,
                    {Ema(11, 10, 9)}, {Ema(9, 10, 11)}, MacdScenes)
    \cup UNION {Deliveries(from, resampled, MIN_CANDLES, BOOLEAN,
                           {Ema(11, 10, 9)}, {Ema(9, 10, 11)},
                           {[last |-> Macd(2, 1), prev |-> Macd(1, 2)]}) :
                   from \in {"BTCUSDT", "btcusdt", "ETHUSDT"},
                   resampled \in BOOLEAN}

InitEval ==
    /\ EngineIdle
    /\ \E config \in EvalConfigs, position \in EvalPositions, stats \in EvalStats :
           rt = [NewRuntime(config, 1) EXCEPT !.positionState = position,
                                              !.tradeStats = stats]
    /\ env = [IdleEnv EXCEPT !.today = MaxDay]
    /\ IdleResample

\* The shard hands the batch to the runner's callback.
Evaluate(delivery) ==
    /\ env.handler = "none"
    /\ rt' = handleDataUpdate(rt, delivery.candles, env.today)
    /\ env' = [env EXCEPT !.handler = "data", !.before = rt,
                          !.received = [from |-> delivery.from,
                                        resampled |-> delivery.resampled]]
    /\ UNCHANGED engineVars

NextEval == \E delivery \in EvalDeliveries : Evaluate(delivery)

SpecEval == InitEval /\ [][NextEval]_vars

(***************************************************************************)
(* The life of one strategy from its construction: batches of its stream   *)
(* arrive, the operator sends manual orders and switches the manual        *)
(* takeover on and off, days pass.                                         *)
(***************************************************************************)
\* takeoverQuantity of the takeover configurations, in units.
TakeoverUnits == 5

\* Active configurations with a risk rule, with and without reverse and
\* pullback entry: the ladder alone, or the trailing stop with fixed TP/SL
\* and the ladder switched on beside it.
RunConfigs ==
    {[WithRisk(BaseConfig, mode) EXCEPT
          !.useReverse = rv, !.useReversionEntry = rv,
          !.useFixedTPSL = (mode = "trailing"),
          !.useMultiTPSL = TRUE] :
        mode \in {"trailing", "multi"}, rv \in BOOLEAN}

\* Closed candles of the own stream whose price moved, in an uptrend or a
\* downtrend, reached with or without a cross, MACD absent.
RunDeliveries ==
    {d \in Deliveries("BTCUSDT", FALSE, MIN_CANDLES, {TRUE},
                      {Ema(11, 10, 9), Ema(9, 10, 11)}, EmaPrev,
                      {[last |-> Macd(Undefined, Undefined),
                        prev |-> Macd(Undefined, Undefined)]}) :
        d.candles.last.low < d.candles.last.high}

\* The configurations cmd_update_config may bring: the takeover switched on
\* with a direction and a quantity, or switched off.
TakeoverChanges(config) ==
    IF config.manualTakeover
    THEN {[config EXCEPT !.manualTakeover = FALSE]}
    ELSE {[config EXCEPT !.manualTakeover = TRUE, !.takeoverDirection = d,
                         !.takeoverQuantity = TakeoverUnits * QTY_SCALE] :
             d \in {"LONG", "SHORT", "FLAT"}}

InitRun ==
    /\ EngineIdle
    /\ \E config \in RunConfigs : rt = NewRuntime(config, 1)
    /\ env = IdleEnv
    /\ IdleResample

\* A handler that would take dailyTradeCount beyond the bound is not taken.
Within(after) == after.tradeStats.dailyTradeCount <= MaxTradeCount

\* The shard hands the batch to the runner's callback.
DataUpdate(delivery) ==
    LET after == handleDataUpdate(rt, delivery.candles, env.today)
    IN /\ Within(after)
       /\ rt' = after
       /\ env' = Track("data", [from |-> delivery.from,
                                resampled |-> delivery.resampled], rt, after)
       /\ UNCHANGED engineVars

\* cmd_manual_order.
ManualOrder(type) ==
    LET after == handleManualOrder(rt, type)
    IN /\ Within(after)
       /\ rt' = after
       /\ env' = Track("manual", NoBatch, rt, after)
       /\ UNCHANGED engineVars

\* cmd_update_config with the same symbol and interval.
ConfigUpdate(newConfig) ==
    LET after == updateConfig(rt, newConfig)
    IN /\ Within(after)
       /\ rt' = after
       /\ env' = Track("config", NoBatch, rt, after)
       /\ UNCHANGED engineVars

\* Midnight (UTC).
DayPasses ==
    /\ env.today < MaxDay
    /\ env' = [env EXCEPT !.today = @ + 1]
    /\ UNCHANGED rt
    /\ UNCHANGED engineVars

NextRun ==
    \/ \E delivery \in RunDeliveries : DataUpdate(delivery)
    \/ \E type \in {"LONG", "SHORT", "FLAT"} : ManualOrder(type)
    \/ \E newConfig \in TakeoverChanges(rt.config) : ConfigUpdate(newConfig)
    \/ DayPasses

SpecRun == InitRun /\ [][NextRun]_vars

(***************************************************************************)
(* The ticks of one UTC date: a strategy constructed on that date, with    *)
(* dailyTradeCount 0, receives batches of its stream.  env.opens counts    *)
(* the orders by which evaluateStrategy opened a position.                 *)
(***************************************************************************)
\* The run configurations with a daily limit of 1 up to MaxDailyTrades + 1.
DayConfigs ==
    {[config EXCEPT !.maxDailyTrades = n] :
        config \in RunConfigs, n \in 1..(MaxDailyTrades + 1)}

InitDay ==
    /\ EngineIdle
    /\ \E config \in DayConfigs : rt = NewRuntime(config, 1)
    /\ env = IdleEnv
    /\ IdleResample

\* The shard hands the batch to the runner's callback.
DayTick(delivery) ==
    LET after == handleDataUpdate(rt, delivery.candles, env.today)
        opened == {k \in 1..Len(after.sent) : IsOpenOrder(after.sent[k])}
    IN /\ rt' = after
       /\ env' = [env EXCEPT !.handler = "data",
                             !.opens = @ + Cardinality(opened)]
       /\ UNCHANGED engineVars

NextDay == \E delivery \in RunDeliveries : DayTick(delivery)

SpecDay == InitDay /\ [][NextDay]_vars

(***************************************************************************)
(* One call of resampleCandles on a window of the 1m stream: klines with   *)
(* strictly increasing open times, as the shard keeps them, resampled to   *)
(* every target interval of the model.                                     *)
(***************************************************************************)
\* The longest window, and the number of 1m slots its klines are taken from.
MaxBase == 4
MaxSlot == 5

\* Prices and volume of a kline.
ResampleBars ==
    {[open |-> 10, high |-> 12, low |-> 10, close |-> 12, volume |-> 1],
     [open |-> 10, high |-> 10, low |-> 8, close |-> 8, volume |-> 2],
     [open |-> 9, high |-> 11, low |-> 9, close |-> 11, volume |-> 3]}

Kline(slot, bar, closed) ==
    [time |-> slot * TickMs, open |-> bar.open, high |-> bar.high,
     low |-> bar.low, close |-> bar.close, volume |-> bar.volume,
     isClosed |-> closed]

\* The windows of n closed klines whose first kline opens at slot `from` or
\* later.
RECURSIVE Windows(_, _)
Windows(n, from) ==
    IF n = 0 THEN {<<>>}
    ELSE UNION {{<<Kline(slot, bar, TRUE)>> \o rest :
                    bar \in ResampleBars, rest \in Windows(n - 1, slot + 1)} :
                  slot \in from..MaxSlot}

\* The windows of at most MaxBase klines; the last kline may still be open.
BaseWindows ==
    LET closed == UNION {Windows(n, 0) : n \in 0..MaxBase}
    IN closed \cup {[w EXCEPT ![Len(w)].isClosed = FALSE] : w \in closed \ {<<>>}}

InitResample ==
    /\ EngineIdle /\ IdleStrategy
    /\ \E baseCandles \in BaseWindows, targetInterval \in Intervals :
           rs = [done |-> FALSE, baseCandles |-> baseCandles,
                 targetInterval |-> targetInterval, baseInterval |-> "1m"]

Resample ==
    /\ ~rs.done
    /\ rs' = [done |-> TRUE, baseCandles |-> rs.baseCandles,
              targetInterval |-> rs.targetInterval,
              baseInterval |-> rs.baseInterval,
              out |-> resampleCandles(rs.baseCandles, rs.targetInterval,
                                      rs.baseInterval)]
    /\ UNCHANGED <<streams, sh, timers, rn, disk, saved, now, rt, env>>

NextResample == Resample

SpecResample == InitResample /\ [][NextResample]_vars

(***************************************************************************)
(* One call of determineBaseConfig for an interval of IntervalType, and a  *)
(* candle of the base stream it selects: the candle of index n opens at n  *)
(* times the width of the base interval, as the exchange aligns them.      *)
(***************************************************************************)
\* The greatest index of a base candle.
MaxIndex == 12

IntervalType ==
    {"1m", "2m", "3m", "5m", "6m", "10m", "15m", "20m", "30m", "45m",
     "1h", "2h", "3h", "4h", "6h", "8h", "10h", "12h",
     "1d", "2d", "3d", "1w", "1M"}

InitBase ==
    /\ EngineIdle /\ IdleStrategy
    /\ \E targetInterval \in IntervalType, index \in 0..MaxIndex :
           rs = [done |-> FALSE, targetInterval |-> targetInterval,
                 index |-> index]

DetermineBase ==
    /\ ~rs.done
    /\ rs' = [done |-> TRUE, targetInterval |-> rs.targetInterval,
              index |-> rs.index,
              config |-> determineBaseConfig(rs.targetInterval)]
    /\ UNCHANGED <<streams, sh, timers, rn, disk, saved, now, rt, env>>

NextBase == DetermineBase

SpecBase == InitBase /\ [][NextBase]_vars

(***************************************************************************)
(* Properties of the strategy runtime, stated over SpecEval.               *)
(***************************************************************************)
\* The last handler was handleDataUpdate.
Evaluated == env.handler = "data"

\* C12: a batch that comes from a shard of another symbol than the configured
\* one (compared without case), base or resampled, leaves positionState,
\* tradeStats, lastPrice and candles as they were and sends no order.
C12_ForeignBatchIgnored ==
    (Evaluated /\ toUpperCase(env.received.from) # toUpperCase(rt.config.symbol))
        => /\ rt.positionState = env.before.positionState
           /\ rt.tradeStats = env.before.tradeStats
           /\ rt.lastPrice = env.before.lastPrice
           /\ rt.candles = env.before.candles
           /\ rt.sent = <<>>

\* C13: evaluateStrategy called with an inactive configuration or with fewer
\* than 50 candles returns the position state and the trade statistics it
\* was given, dailyTradeCount and lastTradeDate included, and no order.
C13_NoEvaluationKeepsState ==
    (Evaluated /\ (~rt.config.isActive \/ rt.candles.length < MIN_CANDLES))
        => /\ rt.positionState = env.before.positionState
           /\ rt.tradeStats = env.before.tradeStats
           /\ rt.sent = <<>>

\* A held position, statistics of an earlier day at the daily limit, and a
\* batch of 49 candles given to an active configuration.
C13_Witness ==
    /\ Evaluated /\ rt.config.isActive
    /\ rt.candles.length = MIN_CANDLES - 1
    /\ env.before.positionState.direction = "LONG"
    /\ env.before.tradeStats.lastTradeDate # env.today
    /\ env.before.tradeStats.dailyTradeCount > 0

\* What evaluateStrategy returns for the last call when the configuration
\* is replaced by `config`.
ResultWith(config) ==
    evaluateStrategy(rt.candles, config, env.before.positionState,
                     env.before.tradeStats, env.today)

\* C14: while manualTakeover is set, evaluateStrategy sends no open order,
\* takes the position from FLAT to nothing else and from a held direction
\* to nothing but FLAT, and sets no pendingReversion; a held position is
\* treated as it is without the takeover and without reverse: its signal
\* exits, TP/SL levels and trailing stop are executed.
C14_TakeoverOpensNothing ==
    (Evaluated /\ rt.config.manualTakeover)
        => /\ \A k \in 1..Len(rt.sent) : ~IsOpenOrder(rt.sent[k])
           /\ rt.positionState.direction
                \in {env.before.positionState.direction, "FLAT"}
           /\ rt.positionState.pendingReversion
                \in {env.before.positionState.pendingReversion, NoPending}
           /\ env.before.positionState.direction # "FLAT"
                => LET free == ResultWith([rt.config EXCEPT
                                              !.manualTakeover = FALSE,
                                              !.useReverse = FALSE])
                   IN /\ rt.positionState = free.newPositionState
                      /\ rt.tradeStats = free.newTradeStats
                      /\ rt.sent = free.actions

\* Under the takeover, with reverse switched on and trades left today, a
\* LONG position is closed by its exit signal and nothing is opened.
C14_Witness ==
    /\ Evaluated /\ rt.config.manualTakeover /\ rt.config.useReverse
    /\ env.before.positionState.direction = "LONG"
    /\ env.before.tradeStats.dailyTradeCount = 0
    /\ rt.positionState.direction = "FLAT"
    /\ Len(rt.sent) = 1
    /\ rt.sent[1].tp_level
         = exitLongReason(rt.config, rt.candles.last, rt.candles.prev)

\* The last call reached the signals: the configuration is active, the
\* batch has 50 candles and its last candle has the three averages.
Ran ==
    /\ Evaluated /\ rt.config.isActive /\ rt.candles.length >= MIN_CANDLES
    /\ rt.candles.last.ema7 # Undefined /\ rt.candles.last.ema25 # Undefined
    /\ rt.candles.last.ema99 # Undefined

\* The last call opened a position in `direction`.
Opened(direction) ==
    \/ \E k \in 1..Len(rt.sent) :
           IsOpenOrder(rt.sent[k]) /\ rt.sent[k].position = toLowerCase(direction)
    \/ /\ rt.positionState.direction = direction
       /\ env.before.positionState.direction # direction

\* C15: on a tick whose signal gate is closed (triggerOnClose and the last
\* candle still open) evaluateStrategy opens no position; on a tick where
\* the trend filter blocks long entries it opens no LONG position, and where
\* it blocks short entries no SHORT position; in immediate mode and in
\* pullback mode, the tick on which a pending pullback triggers included.
C15_GateAndTrendFilterBlockOpens ==
    Ran => /\ (rt.config.triggerOnClose /\ ~rt.candles.last.isClosed)
                => ~Opened("LONG") /\ ~Opened("SHORT")
           /\ blockLong(rt.config, rt.candles.last) => ~Opened("LONG")
           /\ blockShort(rt.config, rt.candles.last) => ~Opened("SHORT")

Opposite(direction) == IF direction = "LONG" THEN "SHORT" ELSE "LONG"

OpenOrders == {k \in 1..Len(rt.sent) : IsOpenOrder(rt.sent[k])}
FlatOrders == {k \in 1..Len(rt.sent) : rt.sent[k].position = "flat"}

\* The last call closed the position it was given: the direction changed,
\* or the close order or an open order was sent.
FullyClosed ==
    /\ Ran /\ env.before.positionState.direction # "FLAT"
    /\ \/ rt.positionState.direction # env.before.positionState.direction
       \/ FlatOrders # {}
       \/ OpenOrders # {}

\* C19: a tick sends at most one open order.  On a tick that fully closes
\* the position the entry logic does not run: the position is left FLAT
\* with no pullback pending, or reversed; an open order is the reverse open
\* and the last order; the orders come as partial exits, then the full
\* close, then the reverse open.
C19_CloseEndsTheTick ==
    /\ Evaluated => Cardinality(OpenOrders) <= 1
    /\ FullyClosed
         => /\ rt.positionState.direction
                 \in {"FLAT", Opposite(env.before.positionState.direction)}
            /\ rt.positionState.pendingReversion = NoPending
            /\ Cardinality(FlatOrders) <= 1
            /\ \A k \in OpenOrders :
                   /\ k = Len(rt.sent)
                   /\ rt.sent[k].tp_level
                        \in {"reverse: open short", "reverse: open long"}
                   /\ rt.sent[k].position
                        = toLowerCase(Opposite(env.before.positionState.direction))
                   /\ rt.positionState.direction
                        = Opposite(env.before.positionState.direction)
            /\ \A i \in FlatOrders, j \in 1..Len(rt.sent) :
                   j > i => j \in OpenOrders
            /\ OpenOrders = {} => rt.positionState.direction = "FLAT"

\* A SHORT position closed by its exit signal on a tick that also carries
\* a long entry signal: the close order and the reverse open, nothing else.
C19_Witness ==
    /\ FullyClosed
    /\ env.before.positionState.direction = "SHORT"
    /\ Len(rt.sent) = 2
    /\ rt.sent[1].position = "flat"
    /\ rt.sent[2].tp_level = "reverse: open long"
    /\ longEntryReason(rt.config, rt.candles.last, rt.candles.prev) # NoReason
    /\ rt.positionState.direction = "LONG"

\* The statistics of the last call after the daily reset.
StatsToday ==
    IF env.before.tradeStats.lastTradeDate # env.today
    THEN [dailyTradeCount |-> 0, lastTradeDate |-> env.today]
    ELSE env.before.tradeStats

\* The exit signal of the tick for the held direction (NoReason if none).
ExitSignal ==
    IF env.before.positionState.direction = "LONG"
    THEN exitLongReason(rt.config, rt.candles.last, rt.candles.prev)
    ELSE exitShortReason(rt.config, rt.candles.last, rt.candles.prev)

\* The last call closed a held position by its exit signal, with reverse
\* switched on for its direction, trades left today and no manual takeover.
ReversalDue ==
    /\ Ran /\ env.before.positionState.direction # "FLAT"
    /\ ExitSignal # NoReason
    /\ rt.config.useReverse /\ ~rt.config.manualTakeover
    /\ IF env.before.positionState.direction = "LONG"
       THEN rt.config.reverseLongToShort ELSE rt.config.reverseShortToLong
    /\ canOpen(StatsToday, rt.config)

\* The orders and the position of a reversal: the close of what remained,
\* then the open of tradeAmount / last.close in the opposite direction.
Reversed ==
    LET held == env.before.positionState
        isLong == held.direction = "LONG"
        qty == QtyFor(rt.config.tradeAmount, rt.candles.last.close)
    IN /\ Len(rt.sent) = 2
       /\ rt.sent[1].action = (IF isLong THEN "sell" ELSE "buy")
       /\ rt.sent[1].position = "flat"
       /\ rt.sent[1].execution_quantity = held.remainingQuantity
       /\ rt.sent[2].action = (IF isLong THEN "sell" ELSE "buy")
       /\ rt.sent[2].position = (IF isLong THEN "short" ELSE "long")
       /\ rt.sent[2].execution_quantity = qty
       /\ rt.positionState.direction = Opposite(held.direction)
       /\ rt.positionState.entryPrice = rt.candles.last.close
       /\ rt.positionState.initialQuantity = qty
       /\ rt.positionState.remainingQuantity = qty

\* A close for another reason than the exit signal opens nothing and
\* leaves the position FLAT.
OtherCloseStaysFlat ==
    (/\ Ran /\ env.before.positionState.direction # "FLAT"
     /\ ExitSignal = NoReason
     /\ rt.positionState.direction # env.before.positionState.direction)
        => rt.positionState.direction = "FLAT" /\ OpenOrders = {}

C16_PositionStateInvariant ==
    LET pos == rt.positionState
    IN /\ pos.direction = "FLAT"
            => /\ pos.initialQuantity = 0 /\ pos.remainingQuantity = 0
               /\ pos.entryPrice = 0 /\ pos.highestPrice = 0
               /\ pos.lowestPrice = 0
               /\ pos.tpLevelsHit = <<>> /\ pos.slLevelsHit = <<>>
       /\ 0 <= pos.remainingQuantity
       /\ pos.remainingQuantity <= pos.initialQuantity
       /\ pos.direction = "LONG" => pos.highestPrice >= pos.entryPrice
       /\ pos.direction = "SHORT" => pos.lowestPrice <= pos.entryPrice

\* A LONG position entered at 12 under the trailing stop, after a tick whose
\* high is below the entry price.
C16_Witness ==
    /\ rt.config.useTrailingStop
    /\ rt.positionState.direction = "LONG"
    /\ rt.positionState.entryPrice = 12
    /\ env.handler = "data"
    /\ rt.candles.last.high < 12
    /\ rt.sent = <<>>

\* The step sent no open order.
NoOpenInStep == \A k \in 1..Len(rt'.sent) : ~IsOpenOrder(rt'.sent[k])

\* C17: from one open of the position to the next, remainingQuantity does
\* not increase from one step to the next, and the execution_quantity of
\* the close orders sent for the position, partial and full, add up to at
\* most its initialQuantity.
C17_ClosesWithinPosition ==
    /\ [](env.closedQty <= env.openedQty)
    /\ [][NoOpenInStep
            => rt'.positionState.remainingQuantity
                 <= rt.positionState.remainingQuantity]_vars

\* Two stop-loss levels of 50% and 75% hit on one tick: the second order is
\* cut to what remained and the orders add up to the whole position.
C17_Witness ==
    /\ env.handler = "data" /\ rt.config.useMultiTPSL
    /\ Len(rt.sent) = 2
    /\ rt.sent[1].tp_level = "stop loss level"
    /\ rt.sent[2].tp_level = "stop loss level"
    /\ rt.sent[1].execution_quantity = rt.sent[2].execution_quantity
    /\ env.closedQty = env.openedQty /\ env.openedQty > 0
    /\ rt.positionState.direction = "FLAT"

\* C18: every order a handler sends for a strategy (a step that is not the
\* passing of a day), by evaluateStrategy or by the manual order handler,
\* has action buy or sell and position long, short or
\* flat; an open of LONG is buy/long and an open of SHORT sell/short; a
\* close of a LONG, partial or full, is sell with position long or flat, a
\* close of a SHORT is buy with position short or flat.
C18_OrderVocabulary ==
    [][env'.today = env.today => \A k \in 1..Len(rt'.sent) :
          LET o == rt'.sent[k]
              held == rt.positionState.direction
          IN /\ o.action \in {"buy", "sell"}
             /\ o.position \in {"long", "short", "flat"}
             /\ IsCloseOrder(o) /\ held = "LONG"
                  => o.action = "sell" /\ o.position \in {"long", "flat"}
             /\ IsCloseOrder(o) /\ held = "SHORT"
                  => o.action = "buy" /\ o.position \in {"short", "flat"}]_vars


\* The orders of `sent` that a take-profit or stop-loss level sent.
LevelOrders(sent) ==
    {k \in 1..Len(sent) :
        sent[k].tp_level \in {"take profit level", "stop loss level"}}

\* The levels an order of the ladder belongs to, and the hit flags of them.
LevelsOf(config, o) ==
    IF o.tp_level = "take profit level" THEN config.tpLevels
                                         ELSE config.slLevels
HitsOf(pos, o) ==
    IF o.tp_level = "take profit level" THEN pos.tpLevelsHit
                                         ELSE pos.slLevelsHit
LevelIndex(config, o) ==
    CHOOSE idx \in 1..Len(LevelsOf(config, o)) : ToString(idx) = o.suffix

\* The quantity of the first k orders of `sent`.
RECURSIVE SumQty(_, _)
SumQty(sent, k) ==
    IF k = 0 THEN 0 ELSE sent[k].execution_quantity + SumQty(sent, k - 1)

\* dailyTradeCount at the start of a tick, after the daily reset.
CountToday ==
    IF rt.tradeStats.lastTradeDate # env.today THEN 0
    ELSE rt.tradeStats.dailyTradeCount

\* C21: in a tick, an order of the ladder is sent only for an active level
\* not yet flagged hit, once per level, for min(initialQuantity * qtyPct /
\* 100, what remains at that point), and the level is flagged while the
\* position lives; a flag stays while the position is held; on the tick
\* where the partial closes leave (near) zero the position becomes FLAT,
\* dailyTradeCount is the count of the day plus 1, and no other order, full
\* close or open, is sent.
C21_LadderOncePerLevel ==
    [][LET pos == rt.positionState
           config == rt.config
           sent == rt'.sent
           partial == LevelOrders(sent)
           held == /\ pos.direction # "FLAT"
                   /\ rt'.positionState.direction = pos.direction
                   /\ NoOpenInStep
       IN /\ held => /\ \A i \in 1..Len(config.tpLevels) :
                            IsHit(pos.tpLevelsHit, i)
                                => IsHit(rt'.positionState.tpLevelsHit, i)
                     /\ \A i \in 1..Len(config.slLevels) :
                            IsHit(pos.slLevelsHit, i)
                                => IsHit(rt'.positionState.slLevelsHit, i)
          /\ (env'.handler = "data" /\ env'.today = env.today /\ partial # {})
               => /\ partial = 1..Cardinality(partial)
                  /\ \A k \in partial :
                       LET o == sent[k]
                           idx == LevelIndex(config, o)
                           lv == LevelsOf(config, o)[idx]
                       IN /\ lv.active /\ ~IsHit(HitsOf(pos, o), idx)
                          /\ o.execution_quantity
                               = Min((pos.initialQuantity * lv.qtyPct) \div 100,
                                     pos.remainingQuantity - SumQty(sent, k - 1))
                          /\ \A j \in partial \ {k} :
                                 \/ sent[j].tp_level # o.tp_level
                                 \/ sent[j].suffix # o.suffix
                          /\ held => IsHit(HitsOf(rt'.positionState, o), idx)
                  /\ NearZero(pos.remainingQuantity
                                - SumQty(sent, Cardinality(partial)))
                       => /\ rt'.positionState.direction = "FLAT"
                          /\ rt'.positionState.remainingQuantity = 0
                          /\ rt'.tradeStats.dailyTradeCount = CountToday + 1
                          /\ Len(sent) = Cardinality(partial)]_vars

\* The first take-profit level sold half of the position on an earlier
\* tick; on this tick the first stop-loss level sells the other half, the
\* only order of the tick, and the position is FLAT.
C21_Witness ==
    /\ env.handler = "data" /\ rt.config.useMultiTPSL
    /\ Len(rt.sent) = 1
    /\ rt.sent[1].tp_level = "stop loss level" /\ rt.sent[1].suffix = "1"
    /\ rt.sent[1].execution_quantity * 2 = env.openedQty
    /\ env.closedQty = env.openedQty
    /\ rt.positionState.direction = "FLAT"
    /\ rt.tradeStats.dailyTradeCount >= 1


(***************************************************************************)
(* Properties of one call of evaluateStrategy, stated over SpecEval.       *)
(***************************************************************************)
\* The last call reached the entries in pullback mode: nothing was held,
\* trades are left today, no manual takeover, and EMA7 is not 0.
PullbackEntryTick ==
    /\ Ran /\ env.before.positionState.direction = "FLAT"
    /\ rt.config.useReversionEntry /\ rt.candles.last.ema7 # 0
    /\ canOpen(StatsToday, rt.config) /\ ~rt.config.manualTakeover

\* The close of the tick has come back to EMA7 * (1 + reversionPct / 100)
\* for the pending direction.
PullbackReached(pending) ==
    LET last == rt.candles.last
    IN IF pending = "LONG"
       THEN last.close * 100 <= last.ema7 * (100 + rt.config.reversionPct)
       ELSE last.close * 100 >= last.ema7 * (100 + rt.config.reversionPct)

\* C22: in pullback mode with nothing held, a tick with no pullback pending
\* sends no order and sets pendingReversion to the direction of the entry
\* reason that fires (long first); a tick with a pullback pending opens the
\* pending direction, with exactly one open order and pendingReversion
\* cleared, if and only if the close has come back to EMA7 * (1 +
\* reversionPct / 100) (at or below it for LONG, at or above it for SHORT);
\* otherwise it sends no order and an opposite entry reason flips
\* pendingReversion.
C22_DeferredEntry ==
    PullbackEntryTick =>
        LET held == env.before.positionState
            pending == held.pendingReversion
            longReason == longEntryReason(rt.config, rt.candles.last,
                                          rt.candles.prev)
            shortReason == shortEntryReason(rt.config, rt.candles.last,
                                            rt.candles.prev)
        IN /\ pending = NoPending
                => /\ rt.sent = <<>>
                   /\ rt.positionState.direction = "FLAT"
                   /\ rt.positionState.pendingReversion
                        = (IF longReason # NoReason THEN "LONG"
                           ELSE IF shortReason # NoReason THEN "SHORT"
                           ELSE NoPending)
           /\ (pending # NoPending /\ PullbackReached(pending))
                => /\ Len(rt.sent) = 1
                   /\ IsOpenOrder(rt.sent[1])
                   /\ rt.sent[1].position = toLowerCase(pending)
                   /\ rt.positionState.direction = pending
                   /\ rt.positionState.pendingReversion = NoPending
           /\ (pending # NoPending /\ ~PullbackReached(pending))
                => /\ rt.sent = <<>>
                   /\ rt.positionState.direction = "FLAT"
                   /\ rt.positionState.pendingReversion
                        = (IF pending = "LONG" /\ shortReason # NoReason
                           THEN "SHORT"
                           ELSE IF pending = "SHORT" /\ longReason # NoReason
                           THEN "LONG"
                           ELSE pending)

\* A LONG pullback is pending with reversionPct 20; the close 12 is exactly
\* EMA7 10 plus 20%: the tick opens LONG with one order.
C22_Witness ==
    /\ PullbackEntryTick /\ rt.config.reversionPct = 20
    /\ env.before.positionState.pendingReversion = "LONG"
    /\ rt.candles.last.close = 12 /\ rt.candles.last.ema7 = 10
    /\ Len(rt.sent) = 1 /\ rt.sent[1].position = "long"
    /\ rt.positionState.direction = "LONG"
    /\ rt.positionState.pendingReversion = NoPending


\* The candle of the last call reaches the fixed take-profit price, or the
\* fixed stop-loss price, of the position the call was given.
FixedTPHit ==
    LET held == env.before.positionState
        last == rt.candles.last
    IN IF held.direction = "LONG"
       THEN last.high * 100 >= held.entryPrice * (100 + rt.config.takeProfitPct)
       ELSE last.low * 100 <= held.entryPrice * (100 - rt.config.takeProfitPct)
FixedSLHit ==
    LET held == env.before.positionState
        last == rt.candles.last
    IN IF held.direction = "LONG"
       THEN last.low * 100 <= held.entryPrice * (100 - rt.config.stopLossPct)
       ELSE last.high * 100 >= held.entryPrice * (100 + rt.config.stopLossPct)

\* The last call evaluated fixed TP/SL on a held position and it hit.
FixedHit ==
    /\ Ran /\ env.before.positionState.direction # "FLAT"
    /\ rt.config.useFixedTPSL
    /\ ~rt.config.useTrailingStop /\ ~rt.config.useMultiTPSL
    /\ ExitSignal = NoReason
    /\ FixedTPHit \/ FixedSLHit

\* The one order of a fixed close: the whole remaining quantity at
\* last.close, reported as take profit if the take-profit price is reached.
FixedCloseOrder ==
    LET held == env.before.positionState
    IN /\ Len(rt.sent) = 1
       /\ rt.sent[1].position = "flat"
       /\ rt.sent[1].action = (IF held.direction = "LONG" THEN "sell" ELSE "buy")
       /\ rt.sent[1].execution_quantity = held.remainingQuantity
       /\ rt.sent[1].execution_price = rt.candles.last.close
       /\ rt.sent[1].tp_level = (IF FixedTPHit THEN "fixed take profit"
                                               ELSE "fixed stop loss")

\* The position is FLAT and the trade is counted once.
FixedCloseState ==
    /\ rt.positionState.direction = "FLAT"
    /\ rt.positionState.remainingQuantity = 0
    /\ rt.tradeStats.dailyTradeCount = StatsToday.dailyTradeCount + 1

\* An order reported as a fixed close is sent only on a tick where fixed
\* TP/SL is evaluated and hits.
FixedOnlyWhenAlone ==
    \A k \in 1..Len(rt.sent) :
        rt.sent[k].tp_level \in {"fixed take profit", "fixed stop loss"}
            => FixedHit

\* C23 as stated: whenever fixed TP/SL is evaluated and hits, whatever
\* quantity remains, the tick sends exactly one full-close order.
C23_FixedCloseAnyQuantity ==
    /\ FixedHit => FixedCloseOrder /\ FixedCloseState
    /\ Evaluated => FixedOnlyWhenAlone

\* C23: fixed TP/SL is evaluated only with useFixedTPSL set, trailing stop
\* and ladder off and no signal exit; when it hits, the position becomes
\* FLAT and dailyTradeCount of the day increases by 1; if more than
\* 0.000001 remains the tick sends exactly one order, the full close of the
\* remaining quantity at last.close, reported as take profit when both
\* prices are reached by the candle; if nothing remains it sends no order.
C23_FixedClose ==
    /\ FixedHit
         => /\ FixedCloseState
            /\ IF NearZero(env.before.positionState.remainingQuantity)
               THEN rt.sent = <<>> ELSE FixedCloseOrder
    /\ Evaluated => FixedOnlyWhenAlone

\* A SHORT entered at 10 and a candle from 8 to 12: take profit and stop
\* loss are both reached and the close is reported as take profit.
C23_Witness ==
    /\ FixedHit /\ FixedTPHit /\ FixedSLHit
    /\ env.before.positionState.direction = "SHORT"
    /\ env.before.positionState.remainingQuantity = 6 * QTY_SCALE
    /\ FixedCloseOrder
    /\ rt.sent[1].tp_level = "fixed take profit"
    /\ rt.sent[1].action = "buy"


(***************************************************************************)
(* Properties of the supervisor's persistence, stated over Spec.           *)
(***************************************************************************)
\* C24: after cmd_add_strategy, cmd_remove_strategy and cmd_update_config
\* the 'strategies' file holds exactly the snapshots of the strategies in
\* memory, and no snapshot of a removed strategy, so that a restart does
\* not restore one.
C24_SnapshotMatchesMemory ==
    /\ saved = Snapshots(rn)
    /\ \A r \in Runners : rn[r].status = "removed" => r \notin RestoredIds(saved)


(***************************************************************************)
(* Properties of resampleCandles, stated over SpecResample.                *)
(***************************************************************************)
\* The base candles of the call that fall in the bucket opening at t.
Bucket(t) ==
    {n \in 1..Len(rs.baseCandles) :
        FloorTo(rs.baseCandles[n].time, intervalToMs(rs.targetInterval)) = t}

First(S) == CHOOSE n \in S : \A m \in S : n <= m
Last(S) == CHOOSE n \in S : \A m \in S : n >= m

\* C25: every candle resampleCandles returns opens at a multiple of
\* ms(target); its high is the greatest high and its low the least low of
\* the base candles of its bucket, its open is the open of the first and
\* its close the close of the last of them; the candles returned are
\* strictly increasing in open time, one for every bucket with a base
\* candle in it.
C25_ResampledBuckets ==
    rs.done =>
        LET base == rs.baseCandles
            out == rs.out
        IN /\ \A k \in 1..Len(out) :
                  LET c == out[k]
                      B == Bucket(c.time)
                  IN /\ c.time % intervalToMs(rs.targetInterval) = 0
                     /\ B # {}
                     /\ \A n \in B : c.high >= base[n].high /\ c.low <= base[n].low
                     /\ \E n \in B : c.high = base[n].high
                     /\ \E n \in B : c.low = base[n].low
                     /\ c.open = base[First(B)].open
                     /\ c.close = base[Last(B)].close
           /\ \A k \in 1..(Len(out) - 1) : out[k].time < out[k + 1].time
           /\ \A n \in 1..Len(base) :
                  \E k \in 1..Len(out) : n \in Bucket(out[k].time)

\* Four klines resampled to 3m: three of them make the first bucket, whose
\* high and low come from different klines, and the fourth the second.
C25_Witness ==
    /\ rs.done /\ rs.targetInterval = "3m"
    /\ Len(rs.baseCandles) = 4 /\ Len(rs.out) = 2
    /\ Cardinality(Bucket(0)) = 3
    /\ rs.out[1].high = 12 /\ rs.out[1].low = 8
    /\ rs.out[1].high # rs.baseCandles[1].high
    /\ rs.out[2].time = 3 * TickMs

\* C26: resampling a window aligned to interval I from I to I returns the
\* window: the same candles in time, open, high, low, close, volume and
\* isClosed.
C26_RoundTrip ==
    (rs.done /\ rs.targetInterval = rs.baseInterval)
        => rs.out = rs.baseCandles


(***************************************************************************)
(* Properties of repeated calls of evaluateStrategy, stated over SpecEval. *)
(***************************************************************************)
\* What evaluateStrategy returns when it is called again, on the day
\* `dateKey`, with the candles and the configuration of the last call and
\* the position and the statistics the last call returned.
SecondCall(dateKey) ==
    evaluateStrategy(rt.candles, rt.config, rt.positionState, rt.tradeStats,
                     dateKey)

\* C27: called again on the same candle tail with the position and the
\* statistics it returned, evaluateStrategy sends none of the orders the
\* first call sent.
C27_SecondCallSendsNoOrderAgain ==
    Ran => \A i \in 1..Len(rt.sent) :
               \A j \in 1..Len(SecondCall(env.today).actions) :
                   SecondCall(env.today).actions[j] # rt.sent[i]

\* The first call sold half of a LONG position at its first take-profit
\* level; the second call, on the same candle, finds the level flagged and
\* sends nothing.
C27_Witness ==
    /\ Ran /\ rt.config.useMultiTPSL
    /\ env.before.positionState.direction = "LONG"
    /\ env.before.positionState.tpLevelsHit = <<>>
    /\ Len(rt.sent) = 1
    /\ rt.sent[1].tp_level = "take profit level" /\ rt.sent[1].suffix = "1"
    /\ rt.positionState.direction = "LONG"
    /\ rt.positionState.tpLevelsHit = <<TRUE>>
    /\ SecondCall(env.today).actions = <<>>


\* What evaluateStrategy returns for the arguments of the last call when
\* the call is made on the day `dateKey`.
CallOn(dateKey) ==
    evaluateStrategy(rt.candles, rt.config, env.before.positionState,
                     env.before.tradeStats, dateKey)

\* C28: evaluateStrategy called with the candles, configuration, position
\* and statistics of the last call returns the direction, quantities, entry
\* price, level flags, pendingReversion, dailyTradeCount and orders of the
\* last call, on whatever day the call is made.
C28_SameResultOnAnyDay ==
    Evaluated =>
        \A dateKey \in Days :
            LET other == CallOn(dateKey)
                pos == other.newPositionState
            IN /\ pos.direction = rt.positionState.direction
               /\ pos.initialQuantity = rt.positionState.initialQuantity
               /\ pos.remainingQuantity = rt.positionState.remainingQuantity
               /\ pos.entryPrice = rt.positionState.entryPrice
               /\ pos.tpLevelsHit = rt.positionState.tpLevelsHit
               /\ pos.slLevelsHit = rt.positionState.slLevelsHit
               /\ pos.pendingReversion = rt.positionState.pendingReversion
               /\ other.newTradeStats.dailyTradeCount
                    = rt.tradeStats.dailyTradeCount
               /\ other.actions = rt.sent


\* C29: called with an active configuration and at least 50 candles whose
\* last candle lacks ema7, ema25 or ema99, evaluateStrategy returns the
\* position state and the trade statistics it was given, dailyTradeCount
\* and lastTradeDate included, and no order.
C29_UndefinedEmaKeepsState ==
    (/\ Evaluated /\ rt.config.isActive /\ rt.candles.length >= MIN_CANDLES
     /\ \/ rt.candles.last.ema7 = Undefined
        \/ rt.candles.last.ema25 = Undefined
        \/ rt.candles.last.ema99 = Undefined)
        => /\ rt.positionState = env.before.positionState
           /\ rt.tradeStats = env.before.tradeStats
           /\ rt.sent = <<>>


\* The exit the signal took precedence over: on the position the last call
\* was given, the ladder alone would have sent a partial close, fixed TP/SL
\* alone would have closed, or the trailing stop alone would have closed.
LadderAlone ==
    MultiLevel(rt.config, env.before.positionState, rt.candles.last)
OtherExitHit ==
    LET held == env.before.positionState
        config == rt.config
        last == rt.candles.last
    IN \/ /\ config.useMultiTPSL /\ ~config.useTrailingStop
          /\ LadderAlone.actions # <<>>
       \/ /\ config.useFixedTPSL /\ ~config.useTrailingStop
          /\ ~config.useMultiTPSL
          /\ FixedCloseReason(config, held, last) # NoReason
       \/ /\ config.useTrailingStop
          /\ TrailingStop(config, held, last).reason # NoReason

\* The last call was given a held position whose exit signal fires while
\* another exit is hit as well.
SignalAndOtherExit ==
    /\ Ran /\ env.before.positionState.direction # "FLAT"
    /\ ExitSignal # NoReason
    /\ OtherExitHit

\* No order of the ladder is sent and the position returned has no level
\* flagged that the position given had not.
NoLevelTouched ==
    LET held == env.before.positionState
        pos == rt.positionState
    IN /\ LevelOrders(rt.sent) = {}
       /\ \A i \in DOMAIN pos.tpLevelsHit :
              pos.tpLevelsHit[i]
                  => i \in DOMAIN held.tpLevelsHit /\ held.tpLevelsHit[i]
       /\ \A i \in DOMAIN pos.slLevelsHit :
              pos.slLevelsHit[i]
                  => i \in DOMAIN held.slLevelsHit /\ held.slLevelsHit[i]

\* The first order is the one full close: the whole remaining quantity at
\* last.close with the reason of the exit signal; any other order is an
\* open order.
SignalCloseOrder ==
    LET held == env.before.positionState
    IN /\ FlatOrders = {1}
       /\ rt.sent[1].action = (IF held.direction = "LONG" THEN "sell" ELSE "buy")
       /\ rt.sent[1].execution_quantity = held.remainingQuantity
       /\ rt.sent[1].execution_price = rt.candles.last.close
       /\ rt.sent[1].tp_level = ExitSignal
       /\ \A k \in 2..Len(rt.sent) : IsOpenOrder(rt.sent[k])

\* C30 as stated: on a tick where the exit signal of the held direction
\* fires and a ladder level, fixed TP/SL or the trailing stop is hit too, no
\* partial close is sent, no level is flagged, and one full close of the
\* whole remaining quantity is sent with the reason of the exit signal,
\* whatever quantity remains.
C30_SignalExitFirstAnyQuantity ==
    SignalAndOtherExit => NoLevelTouched /\ SignalCloseOrder

\* C30: on a tick where the exit signal of the held direction fires and a
\* ladder level, fixed TP/SL or the trailing stop is hit too, no partial
\* close is sent and no level is flagged; if more than 0.000001 remains,
\* one full close of the whole remaining quantity is sent with the reason
\* of the exit signal; if nothing remains no close order is sent; the
\* position held is given up in both cases.
C30_SignalExitFirst ==
    SignalAndOtherExit
        => /\ NoLevelTouched
           /\ rt.positionState.direction # env.before.positionState.direction
           /\ IF NearZero(env.before.positionState.remainingQuantity)
              THEN FlatOrders = {}
              ELSE SignalCloseOrder

\* A whole LONG position whose first take-profit level is reached on the
\* tick of its exit signal: one order, the close of the 12 units.
C30_Witness ==
    /\ SignalAndOtherExit
    /\ rt.config.useMultiTPSL /\ ~rt.config.useTrailingStop
    /\ LadderAlone.actions # <<>>
    /\ LadderAlone.actions[1].tp_level = "take profit level"
    /\ env.before.positionState.direction = "LONG"
    /\ env.before.positionState.remainingQuantity = 12 * QTY_SCALE
    /\ SignalCloseOrder /\ Len(rt.sent) = 1
    /\ rt.positionState.direction = "FLAT"


(***************************************************************************)
(* The trailing stop over the life of a position, stated over SpecRun.     *)
(***************************************************************************)
\* The step is a call of handleDataUpdate.
DataStep == env'.handler = "data" /\ env'.today = env.today /\ rt' # rt

\* The exit signal, in the batch of the step, for the direction held.
StepExitSignal ==
    IF rt.positionState.direction = "LONG"
    THEN exitLongReason(rt.config, rt'.candles.last, rt'.candles.prev)
    ELSE exitShortReason(rt.config, rt'.candles.last, rt'.candles.prev)

\* The extreme of the position after the candle of the step: the highest
\* high of a LONG, the lowest low of a SHORT.
StepPeak ==
    IF rt.positionState.direction = "LONG"
    THEN Max(rt.positionState.highestPrice, rt'.candles.last.high)
    ELSE Min(rt.positionState.lowestPrice, rt'.candles.last.low)

\* The trailing stop is active at that extreme and the candle of the step
\* reaches the stop price.
StepTrailHit ==
    LET held == rt.positionState
        config == rt.config
        last == rt'.candles.last
    IN IF held.direction = "LONG"
       THEN /\ StepPeak * 100 >= held.entryPrice * (100 + config.trailActivation)
            /\ last.low * 100 <= StepPeak * (100 - config.trailDistance)
       ELSE /\ StepPeak * 100 <= held.entryPrice * (100 - config.trailActivation)
            /\ last.high * 100 >= StepPeak * (100 + config.trailDistance)

\* The orders of the step reported as a trailing-stop close, and as a fixed
\* close or a level of the ladder.
TrailOrders ==
    {k \in 1..Len(rt'.sent) : rt'.sent[k].tp_level = "trailing stop"}
FixedOrLevelOrders ==
    {k \in 1..Len(rt'.sent) :
        rt'.sent[k].tp_level \in {"fixed take profit", "fixed stop loss",
                                  "take profit level", "stop loss level"}}

\* C31: on every tick of a held position with useTrailingStop set: no
\* order of fixed TP/SL or of the ladder is sent and no level is flagged;
\* if no exit signal fires, the position that stays open has its extreme
\* moved to max(highestPrice, last.high) (SHORT: min(lowestPrice,
\* last.low)) and is otherwise unchanged, so the extreme is monotone and is
\* the extreme of its opening value and every candle since; the position is
\* closed by the trailing stop, to FLAT with the one order of what remained,
\* if highestPrice >= entry * (1 + trailActivation / 100) and last.low <=
\* highestPrice * (1 - trailDistance / 100) (SHORT symmetric), and stays
\* open if not while something remains of it; an order is reported as a
\* trailing-stop close on no other tick.
C31_TrailingStop ==
    [][LET held == rt.positionState
           after == rt'.positionState
           isLong == held.direction = "LONG"
           trailing == /\ DataStep /\ held.direction # "FLAT"
                       /\ rt.config.useTrailingStop
       IN /\ trailing
               => /\ FixedOrLevelOrders = {}
                  /\ \A i \in DOMAIN after.tpLevelsHit : ~after.tpLevelsHit[i]
                  /\ \A i \in DOMAIN after.slLevelsHit : ~after.slLevelsHit[i]
          /\ (trailing /\ StepExitSignal = NoReason)
               => /\ after.direction \in {held.direction, "FLAT"}
                  /\ after.direction = held.direction
                       => /\ after = IF isLong
                                     THEN [held EXCEPT !.highestPrice = StepPeak]
                                     ELSE [held EXCEPT !.lowestPrice = StepPeak]
                          /\ isLong => after.highestPrice >= held.highestPrice
                          /\ ~isLong => after.lowestPrice <= held.lowestPrice
                          /\ rt'.sent = <<>>
                  /\ StepTrailHit
                       => /\ after = FlatPosition
                          /\ ~NearZero(held.remainingQuantity)
                               => /\ TrailOrders = {1} /\ Len(rt'.sent) = 1
                                  /\ rt'.sent[1].position = "flat"
                                  /\ rt'.sent[1].execution_quantity
                                       = held.remainingQuantity
                  /\ (~StepTrailHit /\ ~NearZero(held.remainingQuantity))
                       => after.direction = held.direction
          /\ (DataStep /\ TrailOrders # {})
               => trailing /\ StepExitSignal = NoReason /\ StepTrailHit]_vars

\* A LONG position of 12 units entered at 10 is closed by the trailing stop
\* on a candle from 8 to 10: the stop is active only by the high of 12 of
\* an earlier candle; fixed TP/SL and the ladder are switched on in the
\* configuration.
C31_Witness ==
    /\ env.handler = "data"
    /\ rt.config.useTrailingStop /\ rt.config.useFixedTPSL
    /\ rt.config.useMultiTPSL
    /\ rt.candles.last.high = 10 /\ rt.candles.last.low = 8
    /\ rt.positionState = FlatPosition
    /\ Len(rt.sent) = 1 /\ rt.sent[1].tp_level = "trailing stop"
    /\ rt.sent[1].action = "sell"
    /\ rt.sent[1].execution_quantity = 12 * QTY_SCALE
    /\ env.openedQty = 12 * QTY_SCALE


\* The volume of the base candles n of the set B, each counted once.
RECURSIVE VolumeOf(_)
VolumeOf(B) ==
    IF B = {} THEN 0
    ELSE rs.baseCandles[Last(B)].volume + VolumeOf(B \ {Last(B)})

\* C32: the volume of every candle resampleCandles returns is the sum of
\* the volumes of the base candles of its bucket, each base candle counted
\* exactly once.
C32_VolumeCountedOnce ==
    rs.done => \A k \in 1..Len(rs.out) :
                   rs.out[k].volume = VolumeOf(Bucket(rs.out[k].time))

\* What the code computes: the volume of the first base candle of the
\* bucket is counted twice, that of every other once.
VolumeSeedCountedTwice ==
    rs.done => \A k \in 1..Len(rs.out) :
                   LET B == Bucket(rs.out[k].time)
                   IN rs.out[k].volume
                        = VolumeOf(B) + rs.baseCandles[First(B)].volume


(***************************************************************************)
(* Properties of the base-interval selection, stated over SpecBase.        *)
(***************************************************************************)
\* The eight intervals the exchange does not serve and the base interval
\* each is to be built from.
SynthesizedBase ==
    [t \in {"2m", "6m", "10m", "20m", "45m", "3h", "10h", "2d"} |->
        CASE t = "2m" -> "1m"   [] t = "6m" -> "3m"  [] t = "10m" -> "5m"
          [] t = "20m" -> "5m"  [] t = "45m" -> "15m" [] t = "3h" -> "1h"
          [] t = "10h" -> "2h"  [] t = "2d" -> "1d"]
NativeIntervals == IntervalType \ DOMAIN SynthesizedBase

\* The width of the native interval n divides the width of t.  The month,
\* 30 days, is wider than every synthesized interval and divides none.
DividesWidth(n, t) ==
    n # "1M" /\ intervalToMs(t) % intervalToMs(n) = 0

\* C33: for each of the 23 intervals determineBaseConfig returns: for the
\* 15 native ones the interval itself with isNative = TRUE; for the 8
\* synthesized ones isNative = FALSE and the base interval 2m->1m, 6m->3m,
\* 10m->5m, 20m->5m, 45m->15m, 3h->1h, 10h->2h, 2d->1d, which is native,
\* whose width divides the target's width and is the largest native width
\* doing so, so that a base candle opening at a multiple of the base width
\* begins and ends in the same target bucket.
C33_BaseSelection ==
    rs.done =>
        LET t == rs.targetInterval
            base == rs.config.baseInterval
            opens == rs.index * intervalToMs(base)
        IN /\ Cardinality(IntervalType) = 23
           /\ Cardinality(NativeIntervals) = 15
           /\ t \in NativeIntervals
                => rs.config = [baseInterval |-> t, isNative |-> TRUE]
           /\ t \notin NativeIntervals
                => /\ ~rs.config.isNative
                   /\ base = SynthesizedBase[t]
                   /\ base \in NativeIntervals
                   /\ DividesWidth(base, t)
                   /\ \A n \in NativeIntervals :
                          DividesWidth(n, t)
                              => intervalToMs(n) <= intervalToMs(base)
                   /\ FloorTo(opens, intervalToMs(t))
                        = FloorTo(opens + intervalToMs(base) - 1,
                                  intervalToMs(t))

\* 20m is built from 5m although 1m divides it too; the fifth 5m candle
\* opens the second 20m bucket.
C33_Witness ==
    /\ rs.done /\ rs.targetInterval = "20m"
    /\ rs.config = [baseInterval |-> "5m", isNative |-> FALSE]
    /\ rs.index = 4
    /\ FloorTo(rs.index * intervalToMs("5m"), intervalToMs("20m"))
         = intervalToMs("20m")


(***************************************************************************)
(* Properties of the shard's buffers.                                      *)
(***************************************************************************)
\* C34: in every state of a shard, each entry of its derived cache is the
\* resampling of the shard's present baseCandles to that target interval,
\* capped to the last VIEW_CAP candles.
C34_DerivedCacheMatchesBase ==
    \A s \in Allocated :
        \A i \in DOMAIN sh[s].derivedBuffers :
            sh[s].derivedBuffers[i]
                = SliceLast(resampleCandles(sh[s].baseCandles, i,
                                            sh[s].baseInterval), VIEW_CAP)


\* A live tick reaches shard s in the step: its websocket is open and its
\* base buffer changes.
TickOn(s) ==
    /\ sh[s].alloc /\ sh'[s].alloc
    /\ sh[s].ws = "open" /\ sh[s].phase = "ready" /\ sh'[s].phase = "ready"
    /\ sh'[s].baseCandles # sh[s].baseCandles

\* Every closed candle of the buffer of s is in the buffer after the step
\* as it was, unless the trim dropped it from the front.
ClosedCandlesKept(s) ==
    LET before == sh[s].baseCandles
        after == sh'[s].baseCandles
    IN \A k \in 1..Len(before) :
           before[k].isClosed
               => \/ \E j \in 1..Len(after) : after[j] = before[k]
                  \/ after # <<>> /\ before[k].time < after[1].time

\* Every candle of a base buffer but the last is closed.
OnlyTailOpen ==
    \A s \in Allocated :
        \A k \in 1..(Len(sh[s].baseCandles) - 1) : sh[s].baseCandles[k].isClosed

\* C35: a candle stored in a shard's base buffer with isClosed = true is
\* never modified or replaced by a later live tick, and every candle of the
\* buffer other than the tail is closed, also after a start that loads a
\* persisted buffer whose tail was open.
C35_ClosedCandlesImmutable ==
    /\ [][\A s \in ShardIds : TickOn(s) => ClosedCandlesKept(s)]_vars
    /\ []OnlyTailOpen


(***************************************************************************)
(* Properties of the manual order handler, stated over SpecRun.            *)
(***************************************************************************)
\* The step is a call of handleManualOrder.
ManualStep == env'.handler = "manual" /\ env'.today = env.today

\* C36: a manual order given while lastPrice is 0 changes nothing of the
\* runtime and sends no order; otherwise it sends exactly one order at
\* lastPrice: LONG (buy/long) and SHORT (sell/short) install a position of
\* tradeAmount / lastPrice entered at lastPrice and add 1 to
\* dailyTradeCount; FLAT (position flat, for the quantity that remained)
\* installs the empty position and leaves the trade statistics as they
\* were.
C36_ManualOrder ==
    [][ManualStep =>
         IF rt.lastPrice = 0
         THEN /\ rt'.sent = <<>>
              /\ rt' = [rt EXCEPT !.sent = <<>>]
         ELSE LET qty == QtyFor(rt.config.tradeAmount, rt.lastPrice)
                  pos == rt'.positionState
              IN /\ Len(rt'.sent) = 1
                 /\ rt'.sent[1].execution_price = rt.lastPrice
                 /\ rt'.config = rt.config /\ rt'.lastPrice = rt.lastPrice
                 /\ rt'.candles = rt.candles
                 /\ rt'.tradeStats.lastTradeDate = rt.tradeStats.lastTradeDate
                 /\ \/ /\ rt'.sent[1].position \in {"long", "short"}
                       /\ rt'.sent[1].action
                            = (IF rt'.sent[1].position = "long" THEN "buy"
                                                                ELSE "sell")
                       /\ rt'.sent[1].execution_quantity = qty
                       /\ toLowerCase(pos.direction) = rt'.sent[1].position
                       /\ pos.initialQuantity = qty
                       /\ pos.remainingQuantity = qty
                       /\ pos.entryPrice = rt.lastPrice
                       /\ pos.pendingReversion = NoPending
                       /\ rt'.tradeStats.dailyTradeCount
                            = rt.tradeStats.dailyTradeCount + 1
                    \/ /\ rt'.sent[1].position = "flat"
                       /\ rt'.sent[1].execution_quantity
                            = rt.positionState.remainingQuantity
                       /\ pos = INITIAL_POS_STATE
                       /\ rt'.tradeStats = rt.tradeStats]_vars

\* A manual SHORT at price 8: one order for 15 units, the position entered
\* at 8 and a trade counted.
C36_Witness ==
    /\ env.handler = "manual" /\ rt.lastPrice = 8
    /\ Len(rt.sent) = 1
    /\ rt.sent[1].action = "sell" /\ rt.sent[1].position = "short"
    /\ rt.sent[1].execution_quantity = 15 * QTY_SCALE
    /\ rt.positionState.direction = "SHORT"
    /\ rt.positionState.entryPrice = 8
    /\ rt.positionState.remainingQuantity = 15 * QTY_SCALE
    /\ rt.tradeStats.dailyTradeCount >= 1


(***************************************************************************)
(* Properties of the trade statistics, stated over SpecRun.                *)
(***************************************************************************)
\* C37: whenever a tick of an active strategy or a manual order counts a
\* trade or compares the count with maxDailyTrades, the count is the count
\* of the current UTC date: after the step lastTradeDate is the current
\* date, a count carried over from an earlier date was reset to 0 before it
\* was used, and a count of the current date is not lowered.
C37_CountIsOfToday ==
    [][LET stats == rt.tradeStats
           after == rt'.tradeStats
           counting ==
               \/ DataStep /\ rt.config.isActive
                           /\ rt'.candles.length >= MIN_CANDLES
               \/ ManualStep
                    /\ after.dailyTradeCount # stats.dailyTradeCount
       IN counting
            => /\ after.lastTradeDate = env.today
               /\ stats.lastTradeDate = env.today
                    => after.dailyTradeCount >= stats.dailyTradeCount
               /\ stats.lastTradeDate # env.today
                    => after.dailyTradeCount <= 1]_vars


(***************************************************************************)
(* Liveness of the upstream connection, stated over FairSpec.              *)
(***************************************************************************)
\* Shard s is wanted: it has a subscriber or is always active.
Wanted(s) ==
    sh[s].alloc /\ (hasSubscribers(sh[s]) \/ sh[s].isAlwaysActive)

\* C38: under fair timers, a shard that has a subscriber or is always
\* active and whose websocket is closed eventually has an open websocket
\* again, unless it loses its subscribers before; also when the websocket
\* closed while a destroy timer was pending and a subscribe() then
\* cancelled the destruction.
C38_ClosedSocketReconnects ==
    \A s \in ShardIds :
        (Wanted(s) /\ sh[s].ws = "closed")
            ~> (sh[s].ws = "open" \/ ~Wanted(s))


(***************************************************************************)
(* Properties of the daily limit, stated over SpecDay.                     *)
(***************************************************************************)
\* C39: over the ticks of one UTC date that starts with dailyTradeCount 0,
\* the number of positions evaluateStrategy opens (immediate entries,
\* pullback entries and reverse opens together) never exceeds
\* maxDailyTrades.
C39_DailyCap == env.opens <= rt.config.maxDailyTrades

\* What the code keeps: the closes of the date are what it counts, a
\* position is opened only on a tick that began with fewer than
\* maxDailyTrades closes, and at most one more position is opened than the
\* limit allows.
OpensWithinLimitPlusOne ==
    /\ env.opens <= rt.config.maxDailyTrades + 1
    /\ env.opens <= rt.tradeStats.dailyTradeCount + 1


(***************************************************************************)
(* Properties of the pending pullback, stated over SpecRun.                *)
(***************************************************************************)
\* C40: in every state reached through ticks, manual orders and manual
\* takeover, a pullback is pending only while the position is FLAT: every
\* handler that opens a position (pullback entry, immediate entry, reverse
\* open, manual order, takeover) leaves pendingReversion null.
C40_PendingOnlyWhileFlat ==
    rt.positionState.pendingReversion # NoPending
        => rt.positionState.direction = "FLAT"

\* A tick opened a SHORT by the pullback that was pending, and nothing is
\* pending in the position it wrote.
C40_Witness ==
    /\ env.handler = "data" /\ rt.config.useReversionEntry
    /\ Len(rt.sent) = 1 /\ IsOpenOrder(rt.sent[1])
    /\ rt.sent[1].suffix = " (EMA7 reversion)"
    /\ rt.positionState.direction = "SHORT"
    /\ rt.positionState.pendingReversion = NoPending

====
